---- MODULE Spec2Model ----
(***************************************************************************)
(* Model of pbclient's authenticated request pipeline (src/client.go,      *)
(* src/errors.go): the credential cache of authenticatedClient, the       *)
(* double-checked renewal of ensureAuthenticated / reauthenticate, and the *)
(* retry loop of Do, run by several concurrent callers on one client.      *)
(*                                                                         *)
(* Atomicity.  Every access to token / tokenExpires happens inside a       *)
(* tokenMutex critical section that contains no blocking call, so each     *)
(* critical section (tokenValid, readToken, clearToken, the store at the   *)
(* end of reauthenticate) is one atomic step; SpecLocks runs the same      *)
(* steps with tokenMutex acquired and released in steps of their own.      *)
(* authMutex is held across the renewal's network call and is modelled     *)
(* explicitly.  Network calls are split in two steps: the request leaves,  *)
(* the reply arrives.                                                      *)
(*                                                                         *)
(* Time is counted in hours.  The zero time.Time is 0; the clock starts    *)
(* later than that.  The empty token is 0, a response that does not exist  *)
(* (nil) is status 0.                                                      *)
(***************************************************************************)
EXTENDS Integers, Sequences, FiniteSets, TLC

\* ------------------------------------------------------------------ bounds
NumCallers == 2        \* concurrent callers of one authenticatedClient
MaxRetriesBound == 2   \* WithRetry(maxRetries, _) is drawn from 0..MaxRetriesBound
MaxCalls == 2          \* Do calls a lone caller makes, one after the other
MaxTicks == 1          \* times the clock advances
ManyRetries == 37      \* the largest retry limit of the clients whose waits
                       \* are followed to the end

\* ------------------------------------------------------- program constants
ValidityWindow == 23   \* expiry := time.Now().Add(23 * time.Hour)
StatusOK == 200
StatusUnauthorized == 401
StatusForbidden == 403
StatusTooManyRequests == 429

Callers == 1..NumCallers

VARIABLES
    maxRetries,     \* client.maxRetries
    backoff,        \* client.backoff, in nanoseconds
    baseURL,        \* client.baseURL
    cancellable,    \* the callers whose ctx can be cancelled (the others pass
                    \* context.Background())
    bodies,         \* the bodies (io.Reader) the callers pass to Do
    body,           \* body[p]: Do's parameter body, with what it has still to yield
    bodyBytes,      \* bodyBytes[p]: Do's local bodyBytes
    given,          \* history: the body p passed to its current Do call
    sent,           \* history: the body of each request of p's Do call that
                    \* was handed to the transport, and its Content-Type
    token,          \* authenticatedClient.token
    tokenExpires,   \* authenticatedClient.tokenExpires
    authMutex,      \* authenticatedClient.authMutex: 0 free, else the holder
    tokenMutex,     \* authenticatedClient.tokenMutex: tokenMutex[p] is "r" or
                    \* "w" when p holds it for reading or for writing, "w?"
                    \* when p is waiting in Lock(), "" otherwise
    now,            \* time.Now()
    ticks,          \* how often the clock advanced
    pc,             \* pc[p]: where caller p stands in Do
    attempt,        \* attempt[p]: Do's loop variable
    tok,            \* tok[p]: Do's local token, the one its request carries
    ctxDone,        \* ctxDone[p]: the ctx given to p's Do call is cancelled
    result,         \* result[p]: what p's current Do call returned
    budget,         \* budget[p]: Do calls p has still to make
    ens,            \* history: how ensureAuthenticated runs in p's iteration
    hist,           \* history: the attempts p's Do call has executed
    delays,         \* history: the delay of each timer p's Do call has set
                    \* in wait
    renewCalls,     \* history: auth requests issued by reauthenticate
    renewAllOK,     \* history: every renewal so far was answered with a token
    invalidated,    \* history: a 401/403 response has cleared the credential
    pending401,     \* history: a Do call returned 401/403 while no other call
                    \* was running, and no renewal was issued since
    cred0Valid,     \* history: the credential was valid in the initial state
    authReply,      \* history: authReply[p] is what the auth endpoint answered
                    \* to the last renewal of p's current Do call
    authStage,      \* where the construction of the authenticatedClient stands:
                    \* "none" (NewClient not called yet), "noclient" (NewClient
                    \* returned no Client),
                    \* "client" (NewClient has returned a Client), "authing"
                    \* (authenticate's request is out), "failed" (authenticate
                    \* returned no client), "ready" (it returned one)
    authRet,        \* what the last call of authenticate returned
    authGot,        \* history: what the auth endpoint answered to it
    mapped,         \* the last call of mapHTTPError: its arguments and the
                    \* error it returned
    migrations,     \* Runner.migrations: the registered migrations, in the
                    \* order of their registration
    byName,         \* Runner.byName: pairs <<trimmed name, migration>>
    autoCreate,     \* Runner.autoCreate
    collectionExists, \* backend: the migrations collection exists
    records,        \* backend: the records of the migrations collection
    nextID,         \* backend: the id the next record gets
    clock,          \* time.Now() of the process the Runner runs in
    rpc,            \* where the Runner stands: "idle", or in Run at the loop
                    \* head ("run") or before recordMigration ("record"), or
                    \* in Down at the loop head ("down") or before
                    \* deleteMigration ("delete")
    todo,           \* what the loop of Run (migrations) or of Down (records)
                    \* has still to go through
    runRet,         \* what the last call of Register, Run or Down returned
    opsLeft,        \* Run and Down calls still to be made
    called,         \* history: the Up and Down calls made and the records
                    \* created and deleted, in order
    began,          \* history: the call of Run or Down that began last, its
                    \* argument, the records there were, the length of called,
                    \* and what the call before it had returned
    kvStore,        \* the records of the backend's key-value collection
    kvCall,         \* each caller's call of KVStore.Delete
    kvLeft,         \* each caller's Delete calls still to be made
    authNoToken     \* history: an authenticate call was answered with the
                    \* success status and no token

vars == <<maxRetries, backoff, baseURL, delays, mapped, migrations, byName, autoCreate,
          collectionExists, records, nextID, clock, rpc, todo, runRet, opsLeft, called, began,
          kvStore, kvCall, kvLeft, cancellable, bodies, body, bodyBytes, given, sent,
          token, tokenExpires, authMutex, tokenMutex, now, ticks,
          pc, attempt, tok, ctxDone, result, budget, ens, hist, renewCalls,
          renewAllOK, invalidated, pending401, cred0Valid, authReply,
          authStage, authRet, authGot, authNoToken>>

\* The state of the rest of the package, which no step of a client touches.
runnerVars == <<migrations, byName, autoCreate, collectionExists, records, nextID, clock,
                rpc, todo, runRet, opsLeft, called, began>>
kvVars == <<kvStore, kvCall, kvLeft>>
pkgVars == <<mapped, runnerVars, kvVars>>
cfgVars == <<maxRetries, backoff, baseURL, cancellable, bodies, pkgVars>>
bodyVars == <<body, bodyBytes, given, sent>>
credVars == <<token, tokenExpires>>
clockVars == <<now, ticks>>
authVars == <<authStage, authRet, authGot, authNoToken>>
histVars == <<renewCalls, renewAllOK, invalidated, pending401, cred0Valid, authReply>>

\* ------------------------------------------------------------------ errors
\* An error value: its class, the HTTP status it was mapped from (0: none),
\* and the call that produced it (the renewal's number for an error of
\* reauthenticate, the attempt index for an error of Do's own request).
Err(kind, code, src) == [kind |-> kind, code |-> code, src |-> src]
NoErr == Err("nil", 0, 0)

\* A bug mapHTTPError could have: only 5xx statuses are server errors.
mapHTTPError5xxOnly(status) ==
    CASE status = 400 -> "ErrBadRequest"
      [] status = 401 -> "ErrUnauthorized"
      [] status = 403 -> "ErrForbidden"
      [] status = 404 -> "ErrNotFound"
      [] status = 409 -> "ErrConflict"
      [] status = 422 -> "ErrValidation"
      [] status = 429 -> "ErrRateLimited"
      [] status >= 500 /\ status < 600 -> "ErrServer"
      [] status >= 200 /\ status < 300 -> "nil"
      [] OTHER -> "HTTPError"

\* mapHTTPError's classification of a status.
mapHTTPError(status) ==
    CASE status = 400 -> "ErrBadRequest"
      [] status = 401 -> "ErrUnauthorized"
      [] status = 403 -> "ErrForbidden"
      [] status = 404 -> "ErrNotFound"
      [] status = 409 -> "ErrConflict"
      [] status = 422 -> "ErrValidation"
      [] status = 429 -> "ErrRateLimited"
      [] status >= 500 -> "ErrServer"
      [] status >= 200 /\ status < 300 -> "nil"
      [] OTHER -> "HTTPError"

\* A response body: its text (a string is a sequence of pieces, " " a
\* space) and what json.Unmarshal makes of it: an error (NotJSON), or the
\* message and the data fields of a pocketBaseError.
ErrBody(raw, parsed) == [raw |-> raw, parsed |-> parsed]
PBErr(message, data) == [valid |-> TRUE, message |-> message, data |-> data]
NotJSON == [valid |-> FALSE, message |-> <<>>, data |-> {}]
PBField(field, message, code) == [field |-> field, message |-> message, code |-> code]

\* The field names that occur, in the order of sort.Strings.
FieldNames == <<"age", "name">>

ErrBodies ==
    { ErrBody(<<>>, NotJSON),
      ErrBody(<<" ">>, NotJSON),
      ErrBody(<<" ", "boom">>, NotJSON),
      ErrBody(<<"{}">>, PBErr(<<>>, {})),
      ErrBody(<<"{m}">>, PBErr(<<"invalid input", " ">>, {})),
      ErrBody(<<"{d}">>, PBErr(<<>>, {PBField("name", <<"is required">>, <<>>)})),
      ErrBody(<<"{md}">>, PBErr(<<"bad">>, {PBField("name", <<" ">>, <<"required">>),
                                          PBField("age", <<>>, <<>>)})) }

\* strings.TrimSpace
RECURSIVE DropLeading(_)
DropLeading(s) == IF s # <<>> /\ Head(s) = " " THEN DropLeading(Tail(s)) ELSE s
RECURSIVE DropTrailing(_)
DropTrailing(s) ==
    IF s # <<>> /\ s[Len(s)] = " " THEN DropTrailing(SubSeq(s, 1, Len(s) - 1)) ELSE s
TrimSpace(s) == DropTrailing(DropLeading(s))

\* strings.Join(elems, "; ")
RECURSIVE Join(_)
Join(elems) ==
    IF elems = <<>> THEN <<>>
    ELSE IF Len(elems) = 1 THEN elems[1]
    ELSE elems[1] \o <<"; ">> \o Join(Tail(elems))

\* parsePBError: the trimmed message and, field by field in the order of the
\* names, "field: message", or "field: code" when there is no message.
RECURSIVE FieldsFrom(_, _)
FieldsFrom(data, i) ==
    IF i > Len(FieldNames) THEN <<>>
    ELSE LET ds == {d \in data : d.field = FieldNames[i]}
             d == CHOOSE d \in ds : TRUE
             one == IF ds = {} THEN <<>>
                    ELSE IF TrimSpace(d.message) # <<>>
                         THEN << <<d.field, ": ">> \o TrimSpace(d.message) >>
                    ELSE IF d.code # <<>> THEN << <<d.field, ": ">> \o d.code >>
                    ELSE <<>>
         IN  one \o FieldsFrom(data, i + 1)

parsePBError(respBody) ==
    IF Len(respBody.raw) = 0 \/ ~respBody.parsed.valid
    THEN [Message |-> <<>>, Fields |-> <<>>]
    ELSE [Message |-> TrimSpace(respBody.parsed.message), Fields |-> FieldsFrom(respBody.parsed.data, 1)]

\* mapHTTPError: the message it builds from the respBody.
Message(respBody) ==
    LET errInfo == parsePBError(respBody)
        msg == IF errInfo.Message = <<>> /\ Len(respBody.raw) > 0
               THEN TrimSpace(respBody.raw) ELSE errInfo.Message
    IN  IF msg = <<>> /\ Len(errInfo.Fields) > 0 THEN Join(errInfo.Fields)
        ELSE IF msg # <<>> /\ Len(errInfo.Fields) > 0
             THEN msg \o <<": ">> \o Join(errInfo.Fields)
        ELSE msg

\* mapHTTPError(status, respBody): nil, a sentinel (wrapped with the message by
\* wrapIfMessage when there is one; errors.Is finds it either way), or an
\* *HTTPError with the status and the message.
mapHTTPErrorValue(status, respBody) ==
    LET class == mapHTTPError(status)
    IN  [class |-> class,
         status |-> IF class = "HTTPError" THEN status ELSE 0,
         msg |-> IF class = "nil" THEN <<>> ELSE Message(respBody)]

NoMapped ==
    [status |-> 0, body |-> ErrBody(<<>>, NotJSON),
     err |-> [class |-> "none", status |-> 0, msg |-> <<>>]]
\* An error a Runner method returns: what its text says, and the errors
\* errors.Is finds in it.
RErr(kind, wraps) == [kind |-> kind, wraps |-> wraps]
RNil == RErr("nil", {})
Ret(op, err) == [op |-> op, err |-> err]
NoRet == Ret("none", RNil)
Ensured(failure, existed, created) ==
    [failure |-> failure, existed |-> existed, created |-> created]
NoEnsure == Ensured("none", FALSE, FALSE)
Began(op, n, recs, at, prev, ensured) ==
    [op |-> op, n |-> n, records |-> recs, at |-> at, prev |-> prev, ens |-> ensured]
NoBegan == Began("none", 0, <<>>, 0, NoRet, NoEnsure)

\* No Runner: nothing registered, nothing called.
InitNoRunner ==
    /\ migrations = <<>> /\ byName = {} /\ autoCreate = TRUE
    /\ collectionExists = FALSE /\ records = <<>> /\ nextID = 1 /\ clock = 1
    /\ rpc = "idle" /\ todo = <<>> /\ runRet = NoRet /\ opsLeft = 0
    /\ called = <<>> /\ began = NoBegan

\* A call of KVStore.Delete: where it is ("idle": not running, "lookup": in
\* getRecordIDByKey, "found": about to send the DELETE), its key, the id it
\* looked up, what it returned, and whether the key had a record when it
\* began (history).
KVCall(at, key, id, ret, absent) ==
    [pc |-> at, key |-> key, id |-> id, ret |-> ret, absent |-> absent]
NoKVCall == KVCall("idle", <<>>, 0, NoRet, FALSE)

\* No KVStore: nothing stored, nothing called.
InitNoKV ==
    /\ kvStore = {}
    /\ kvCall = [p \in Callers |-> NoKVCall]
    /\ kvLeft = [p \in Callers |-> 0]

InitPkg == mapped = NoMapped /\ InitNoRunner /\ InitNoKV

\* ------------------------------------------------------------- environment
\* What the auth endpoint can answer to a renewal: the call fails, the body
\* cannot be read, a 200 with a token / without one / with a body that is
\* not JSON, or another status.
AuthStatuses == {204, 401, 418, 500}
AuthReplies ==
    [k : {"neterr", "readerr"}, status : {0}]
      \cup [k : {"token", "notoken", "badjson"}, status : {StatusOK}]
      \cup [k : {"status"}, status : AuthStatuses]

\* No renewal of the current Do call has been answered.
NoReply == [k |-> "none", status |-> 0]

\* An io.Reader passed as body: nil or not, the bytes it has still to
\* yield, and whether reading it fails.  A []byte: nil or not, and its bytes.
Reader(isNil, data, fails) == [nil |-> isNil, data |-> data, fails |-> fails]
Bytes(isNil, data) == [nil |-> isNil, data |-> data]
NoBody == Reader(TRUE, <<>>, FALSE)
NilBytes == Bytes(TRUE, <<>>)

\* The bodies a caller can pass: none, an empty one, one and two bytes, and
\* a reader that fails.
Bodies ==
    {NoBody, Reader(FALSE, <<>>, FALSE), Reader(FALSE, <<"a">>, FALSE),
     Reader(FALSE, <<"a", "b">>, FALSE), Reader(FALSE, <<"a">>, TRUE)}

\* The statuses the backend can answer to a request of Do.
DoStatuses == {StatusOK, StatusUnauthorized, StatusForbidden, StatusTooManyRequests, 500}

\* The token the auth endpoint hands out in answer to the n-th renewal
\* (the client is built with token 1).
TokenOf(n) == n + 1

\* ----------------------------------------------------------------- history
\* ens[p]: the path ensureAuthenticated has taken in the current iteration
\* ("none": not called yet; "fast": valid at the first look; "slow": invalid
\* at the first look; "waited": valid at the second look; "renewing" and
\* "renewed": reauthenticate called / returned nil), the number of renewals
\* that had finished when the first look found the credential invalid, and
\* the number of the renewal this call issued.
Ens(path, x, id) == [path |-> path, x |-> x, id |-> id]
NoEns == Ens("none", 0, 0)

\* hist[p]: one record per executed attempt: the status of the response (0:
\* the transport returned an error), whether the response body was closed by
\* Do, whether Do went into a backoff wait after it.
Attempt(out, closed, waited) == [out |-> out, closed |-> closed, waited |-> waited]

\* ------------------------------------------------------------- credential
\* The time at which the model starts: late enough for an expiry in the past.
Epoch == ValidityWindow + 1

\* A bug tokenValid could have: the unset expiry is looked at first.
tokenValidExpiryFirst ==
    IF tokenExpires = 0 THEN TRUE
    ELSE token # 0 /\ now < tokenExpires

\* A bug tokenValid could have: a token is still valid at its expiry.
tokenValidAtExpiry ==
    IF token = 0 THEN FALSE
    ELSE IF tokenExpires = 0 THEN TRUE
    ELSE now <= tokenExpires

\* authenticatedClient.tokenValid
tokenValid ==
    IF token = 0 THEN FALSE
    ELSE IF tokenExpires = 0 THEN TRUE
    ELSE now < tokenExpires

RenewInFlight == \E q \in Callers : pc[q] = "renewing"
RenewDone == renewCalls - (IF RenewInFlight THEN 1 ELSE 0)
Running(p) == pc[p] \notin {"idle", "done"}

\* time.Duration is an int64 count of nanoseconds.  A Duration is kept here as
\* its DurationBits two's-complement bits, the sign bit first.
DurationBits == 64
DefaultBackoff == 200000000   \* 200 * time.Millisecond

\* The Duration of n nanoseconds, for 0 <= n < 2^31.
ToBits(n) ==
    [i \in 1..DurationBits |->
        IF DurationBits - i >= 31 THEN 0 ELSE (n \div 2^(DurationBits - i)) % 2]

\* d << n on an int64: the low bits move up, the bits shifted out of the
\* width are lost, zeros come in; a count of DurationBits or more leaves 0.
Shl(d, n) ==
    [i \in 1..DurationBits |-> IF i + n <= DurationBits THEN d[i + n] ELSE 0]

TypeOK ==
    /\ maxRetries \in 0..ManyRetries
    /\ backoff \in Nat
    /\ \A p \in Callers : \A i \in 1..Len(delays[p]) :
           delays[p][i] \in [1..DurationBits -> {0, 1}]
    /\ token \in Nat /\ tokenExpires \in Nat /\ now \in Nat
    /\ authMutex \in 0..NumCallers
    /\ pc \in [Callers -> {"idle", "loop", "lock", "recheck", "renewing",
                           "send", "inflight", "wait", "done"}]
    /\ attempt \in [Callers -> 0..(ManyRetries + 1)]
    /\ tok \in [Callers -> Nat]
    /\ ctxDone \in [Callers -> BOOLEAN]
    /\ budget \in [Callers -> 0..MaxCalls]
    /\ renewAllOK \in BOOLEAN /\ invalidated \in BOOLEAN
    /\ pending401 \in BOOLEAN /\ cred0Valid \in BOOLEAN
    /\ tokenMutex \in [Callers -> {"", "r", "w?", "w"}]
    /\ authReply \in [Callers -> AuthReplies \cup {NoReply}]
    /\ authGot \in AuthReplies \cup {NoReply}
    /\ authStage \in {"none", "noclient", "client", "authing", "failed", "ready"}
    /\ baseURL \in Seq({" ", "u", "/"})
    /\ authRet.client \in BOOLEAN /\ authNoToken \in BOOLEAN
    /\ autoCreate \in BOOLEAN /\ collectionExists \in BOOLEAN
    /\ rpc \in {"idle", "run", "record", "down", "delete"}
    /\ opsLeft \in Nat /\ nextID \in Nat /\ clock \in Nat
    /\ Len(migrations) = Cardinality(byName)
    /\ \A i \in 1..Len(records) : records[i].id \in 1..(nextID - 1)

\* A bug WithRetry could have: a negative limit is kept.
WithRetryUnclamped(n, b) ==
    [maxRetries |-> n, backoff |-> IF b > 0 THEN b ELSE 0]

\* The client's maxRetries and backoff after NewClient(url, WithRetry(n, b)):
\* a negative n counts as 0, a b that is not positive leaves backoff at its
\* zero value.
WithRetry(n, b) ==
    [maxRetries |-> IF n < 0 THEN 0 ELSE n, backoff |-> IF b > 0 THEN b ELSE 0]

\* The retry limits of the clients built with WithRetry(n, _), n from -1 up.
RetryLimits(most) == {WithRetry(n, 0).maxRetries : n \in -1..most}

\* The client as client.authenticate returns it (a token that expires a
\* validity window from now) and as the package's tests build it (no token,
\* a token with no expiry, with an expiry in the past, an hour ahead).
InitClient(retries, calls, ctxs) ==
    /\ maxRetries \in retries
    /\ cancellable = ctxs
    /\ baseURL = <<"u">>
    /\ now = Epoch
    /\ ticks = 0
    /\ \E c \in {<<0, 0>>, <<0, now - 1>>, <<1, 0>>, <<1, now - 1>>, <<1, now + 1>>,
                 <<1, now + ValidityWindow>>} :
           token = c[1] /\ tokenExpires = c[2]
    /\ authMutex = 0
    /\ body = [p \in Callers |-> NoBody]
    /\ bodyBytes = [p \in Callers |-> NilBytes]
    /\ given = [p \in Callers |-> NoBody]
    /\ sent = [p \in Callers |-> <<>>]
    /\ tokenMutex = [p \in Callers |-> ""]
    /\ pc = [p \in Callers |-> "idle"]
    /\ attempt = [p \in Callers |-> 0]
    /\ tok = [p \in Callers |-> 0]
    /\ ctxDone = [p \in Callers |-> FALSE]
    /\ result = [p \in Callers |-> [resp |-> 0, err |-> NoErr]]
    /\ budget = calls
    /\ ens = [p \in Callers |-> NoEns]
    /\ hist = [p \in Callers |-> <<>>]
    /\ delays = [p \in Callers |-> <<>>]
    /\ renewCalls = 0
    /\ renewAllOK = TRUE
    /\ invalidated = FALSE
    /\ pending401 = FALSE
    /\ cred0Valid = tokenValid
    /\ authReply = [p \in Callers |-> NoReply]
    /\ authStage = "ready"
    /\ authRet = [client |-> TRUE, err |-> NoErr]
    /\ authGot = NoReply
    /\ authNoToken = FALSE

\* One caller makes Do calls one after the other, with any retry limit and
\* a ctx it can cancel.
Init ==
    /\ InitClient(RetryLimits(MaxRetriesBound),
                  [p \in Callers |-> IF p = 1 THEN MaxCalls ELSE 0], {1})
    /\ bodies = {NoBody}
    /\ backoff = 0
    /\ InitPkg

\* Every caller makes one Do call, concurrently with the others, on a client
\* built without WithRetry (maxRetries = 0) and with context.Background().
InitConc ==
    /\ InitClient({0}, [p \in Callers |-> 1], {})
    /\ bodies = {NoBody}
    /\ backoff = 0
    /\ InitPkg

\* One caller makes one Do call, with any body, any retry limit and a ctx it
\* can cancel.
InitBody ==
    /\ InitClient(RetryLimits(MaxRetriesBound),
                  [p \in Callers |-> IF p = 1 THEN 1 ELSE 0], {1})
    /\ bodies = Bodies
    /\ backoff = 0
    /\ InitPkg

\* NewClient has returned a Client, built with any retry limit; no
\* authenticatedClient exists yet.  The one caller there is will make its Do
\* calls on the authenticatedClient that authenticate returns.
InitAuth ==
    /\ maxRetries \in RetryLimits(MaxRetriesBound)
    /\ cancellable = {1}
    /\ baseURL = <<"u">>
    /\ bodies = {NoBody}
    /\ backoff = 0
    /\ InitPkg
    /\ now = Epoch
    /\ ticks = 0
    /\ token = 0 /\ tokenExpires = 0
    /\ authMutex = 0
    /\ body = [p \in Callers |-> NoBody]
    /\ bodyBytes = [p \in Callers |-> NilBytes]
    /\ given = [p \in Callers |-> NoBody]
    /\ sent = [p \in Callers |-> <<>>]
    /\ tokenMutex = [p \in Callers |-> ""]
    /\ pc = [p \in Callers |-> "idle"]
    /\ attempt = [p \in Callers |-> 0]
    /\ tok = [p \in Callers |-> 0]
    /\ ctxDone = [p \in Callers |-> FALSE]
    /\ result = [p \in Callers |-> [resp |-> 0, err |-> NoErr]]
    /\ budget = [p \in Callers |-> IF p = 1 THEN MaxCalls ELSE 0]
    /\ ens = [p \in Callers |-> NoEns]
    /\ hist = [p \in Callers |-> <<>>]
    /\ delays = [p \in Callers |-> <<>>]
    /\ renewCalls = 0
    /\ renewAllOK = TRUE
    /\ invalidated = FALSE
    /\ pending401 = FALSE
    /\ cred0Valid = FALSE
    /\ authReply = [p \in Callers |-> NoReply]
    /\ authStage = "client"
    /\ authRet = [client |-> FALSE, err |-> NoErr]
    /\ authGot = NoReply
    /\ authNoToken = FALSE

\* NewClient has not been called yet: there is no Client (the variables of
\* its configuration hold their zero values).  The one caller there is will
\* make one Do call on the authenticatedClient it obtains.
InitNew ==
    /\ maxRetries = 0
    /\ cancellable = {1}
    /\ baseURL = <<>>
    /\ bodies = {NoBody}
    /\ backoff = 0
    /\ InitPkg
    /\ now = Epoch
    /\ ticks = 0
    /\ token = 0 /\ tokenExpires = 0
    /\ authMutex = 0
    /\ body = [p \in Callers |-> NoBody]
    /\ bodyBytes = [p \in Callers |-> NilBytes]
    /\ given = [p \in Callers |-> NoBody]
    /\ sent = [p \in Callers |-> <<>>]
    /\ tokenMutex = [p \in Callers |-> ""]
    /\ pc = [p \in Callers |-> "idle"]
    /\ attempt = [p \in Callers |-> 0]
    /\ tok = [p \in Callers |-> 0]
    /\ ctxDone = [p \in Callers |-> FALSE]
    /\ result = [p \in Callers |-> [resp |-> 0, err |-> NoErr]]
    /\ budget = [p \in Callers |-> IF p = 1 THEN 1 ELSE 0]
    /\ ens = [p \in Callers |-> NoEns]
    /\ hist = [p \in Callers |-> <<>>]
    /\ delays = [p \in Callers |-> <<>>]
    /\ renewCalls = 0
    /\ renewAllOK = TRUE
    /\ invalidated = FALSE
    /\ pending401 = FALSE
    /\ cred0Valid = FALSE
    /\ authReply = [p \in Callers |-> NoReply]
    /\ authStage = "none"
    /\ authRet = [client |-> FALSE, err |-> NoErr]
    /\ authGot = NoReply
    /\ authNoToken = FALSE

\* An authenticatedClient in any credential state, at any time around its
\* expiry; every caller is about to call Do once (maxRetries = 0).
InitValid ==
    /\ maxRetries = 0
    /\ cancellable = {}
    /\ baseURL = <<"u">>
    /\ bodies = {NoBody}
    /\ backoff = 0
    /\ InitPkg
    /\ now \in Epoch..(Epoch + 1)
    /\ ticks = 0
    /\ token \in 0..2
    /\ tokenExpires \in {0} \cup (Epoch - 1)..(Epoch + 2)
    /\ authMutex = 0
    /\ body = [p \in Callers |-> NoBody]
    /\ bodyBytes = [p \in Callers |-> NilBytes]
    /\ given = [p \in Callers |-> NoBody]
    /\ sent = [p \in Callers |-> <<>>]
    /\ tokenMutex = [p \in Callers |-> ""]
    /\ pc = [p \in Callers |-> "idle"]
    /\ attempt = [p \in Callers |-> 0]
    /\ tok = [p \in Callers |-> 0]
    /\ ctxDone = [p \in Callers |-> FALSE]
    /\ result = [p \in Callers |-> [resp |-> 0, err |-> NoErr]]
    /\ budget = [p \in Callers |-> 1]
    /\ ens = [p \in Callers |-> NoEns]
    /\ hist = [p \in Callers |-> <<>>]
    /\ delays = [p \in Callers |-> <<>>]
    /\ renewCalls = 0
    /\ renewAllOK = TRUE
    /\ invalidated = FALSE
    /\ pending401 = FALSE
    /\ cred0Valid = tokenValid
    /\ authReply = [p \in Callers |-> NoReply]
    /\ authStage = "ready"
    /\ authRet = [client |-> TRUE, err |-> NoErr]
    /\ authGot = NoReply
    /\ authNoToken = FALSE

\* ----------------------------------------------------------------- actions
\* The credentials a caller can pass: strings are sequences of characters.
Emails == {<<>>, <<" ">>, <<" ", " ">>, <<"a">>, <<" ", "a">>}
Passwords == {<<>>, <<" ">>, <<"p">>}

\* The base URLs a caller can pass.
BaseURLs == {<<>>, <<" ">>, <<"/">>, <<"u">>, <<" ", "u", "/", "/", " ">>}

\* strings.TrimRight(s, "/")
RECURSIVE TrimRightSlash(_)
TrimRightSlash(s) ==
    IF s # <<>> /\ s[Len(s)] = "/" THEN TrimRightSlash(SubSeq(s, 1, Len(s) - 1)) ELSE s

\* A bug NewClient could have: the base URL is tested as given.
NewClientUntrimmed(url, n, b) ==
    /\ authStage = "none"
    /\ IF url = <<>>
       THEN /\ authStage' = "noclient"
            /\ authRet' = [client |-> FALSE, err |-> Err("baseurl_required", 0, 0)]
            /\ UNCHANGED <<maxRetries, backoff, baseURL>>
       ELSE /\ authStage' = "client"
            /\ baseURL' = TrimRightSlash(TrimSpace(url))
            /\ maxRetries' = WithRetry(n, b).maxRetries
            /\ backoff' = WithRetry(n, b).backoff
            /\ UNCHANGED authRet
    /\ UNCHANGED <<cancellable, bodies, pkgVars, bodyVars, credVars, authMutex, clockVars, pc, attempt,
                   tok, ctxDone, result, budget, ens, hist, delays, histVars, authGot,
                   authNoToken>>

\* NewClient(url, WithRetry(n, b)): no Client and an error for a base URL that
\* is blank, else a Client with the trimmed URL and the options applied.
NewClient(url, n, b) ==
    /\ authStage = "none"
    /\ IF TrimSpace(url) = <<>>
       THEN /\ authStage' = "noclient"
            /\ authRet' = [client |-> FALSE, err |-> Err("baseurl_required", 0, 0)]
            /\ UNCHANGED <<maxRetries, backoff, baseURL>>
       ELSE /\ authStage' = "client"
            /\ baseURL' = TrimRightSlash(TrimSpace(url))
            /\ maxRetries' = WithRetry(n, b).maxRetries
            /\ backoff' = WithRetry(n, b).backoff
            /\ UNCHANGED authRet
    /\ UNCHANGED <<cancellable, bodies, pkgVars, bodyVars, credVars, authMutex, clockVars, pc, attempt,
                   tok, ctxDone, result, budget, ens, hist, delays, histVars, authGot,
                   authNoToken>>

\* AuthenticateUser / AuthenticateSuperuser, up to the auth request leaving:
\* blank credentials are refused without a request.
Authenticate(email, password) ==
    /\ authStage \in {"client", "failed"}
    /\ authGot' = NoReply
    /\ IF TrimSpace(email) = <<>>
       THEN /\ authStage' = "failed"
            /\ authRet' = [client |-> FALSE, err |-> Err("email_required", 0, 0)]
       ELSE IF password = <<>>
       THEN /\ authStage' = "failed"
            /\ authRet' = [client |-> FALSE, err |-> Err("password_required", 0, 0)]
       ELSE /\ authStage' = "authing"
            /\ authRet' = [client |-> FALSE, err |-> NoErr]
    /\ UNCHANGED <<cfgVars, bodyVars, credVars, authMutex, clockVars, pc, attempt, tok,
                   ctxDone, result, budget, ens, hist, delays, histVars, authNoToken>>

\* What client.authenticate returns as error on reply r of the auth endpoint.
authenticateErr(r) ==
    CASE r.k = "neterr" -> "auth_request_failed"
      [] r.k = "readerr" -> "auth_read_failed"
      [] r.k = "status" -> mapHTTPError(r.status)
      [] r.k = "badjson" -> "auth_parse_failed"
      [] r.k = "notoken" -> "auth_token_missing"
      [] OTHER -> "nil"

\* client.authenticate from the reply of the auth endpoint to its return: an
\* authenticatedClient holding the token, or no client and an error.
AuthenticateReply(r) ==
    /\ authStage = "authing"
    /\ authGot' = r
    /\ authNoToken' = (authNoToken \/ r.k = "notoken")
    /\ authRet' = [client |-> r.k = "token",
                   err |-> Err(authenticateErr(r), r.status, 0)]
    /\ IF r.k = "token"
       THEN /\ authStage' = "ready"
            /\ token' = TokenOf(0) /\ tokenExpires' = now + ValidityWindow
       ELSE /\ authStage' = "failed"
            /\ UNCHANGED credVars
    /\ UNCHANGED <<cfgVars, bodyVars, authMutex, clockVars, pc, attempt, tok, ctxDone,
                   result, budget, ens, hist, delays, histVars>>

\* Do returns (resp, err).
Return(p, resp, err) ==
    /\ result' = [result EXCEPT ![p] = [resp |-> resp, err |-> err]]
    /\ pc' = [pc EXCEPT ![p] = "done"]
    /\ tok' = [tok EXCEPT ![p] = 0]
    /\ ens' = [ens EXCEPT ![p] = NoEns]

\* io.ReadAll(r): the bytes r had still to yield (a non-nil slice even when
\* there are none) or an error, and r afterwards, drained.
ReadAll(r) ==
    [data |-> Bytes(FALSE, r.data), err |-> r.fails, rest |-> [r EXCEPT !.data = <<>>]]

\* bytes.NewReader(b): a new reader that yields the bytes of b.
NewReader(b) == Reader(FALSE, b.data, FALSE)

\* A caller calls Do (again, once its previous call has returned): the body
\* is read into bodyBytes, or Do returns the error of reading it.
StartDo(p) ==
    /\ authStage = "ready"
    /\ pc[p] \in {"idle", "done"}
    /\ budget[p] > 0
    /\ budget' = [budget EXCEPT ![p] = @ - 1]
    /\ attempt' = [attempt EXCEPT ![p] = 0]
    /\ ctxDone' = [ctxDone EXCEPT ![p] = FALSE]
    /\ hist' = [hist EXCEPT ![p] = <<>>]
    /\ delays' = [delays EXCEPT ![p] = <<>>]
    /\ sent' = [sent EXCEPT ![p] = <<>>]
    /\ authReply' = [authReply EXCEPT ![p] = NoReply]
    /\ \E b \in bodies :
           /\ given' = [given EXCEPT ![p] = b]
           /\ body' = [body EXCEPT ![p] = IF b.nil THEN b ELSE ReadAll(b).rest]
           /\ IF ~b.nil /\ ReadAll(b).err
              THEN /\ Return(p, 0, Err("read_body", 0, 0))
                   /\ UNCHANGED bodyBytes
              ELSE /\ bodyBytes' = [bodyBytes EXCEPT ![p] =
                                       IF b.nil THEN NilBytes ELSE ReadAll(b).data]
                   /\ pc' = [pc EXCEPT ![p] = "loop"]
                   /\ result' = [result EXCEPT ![p] = [resp |-> 0, err |-> NoErr]]
                   /\ UNCHANGED <<tok, ens>>
    /\ UNCHANGED <<cfgVars, authVars, credVars, authMutex, clockVars, renewCalls,
                   renewAllOK, invalidated, pending401, cred0Valid>>

\* The loop test of Do, and ensureAuthenticated's first tokenValid().
LoopHead(p) ==
    /\ pc[p] = "loop"
    /\ IF attempt[p] > maxRetries
       THEN Return(p, 0, Err("retries", 0, 0))
       ELSE /\ pc' = [pc EXCEPT ![p] = IF tokenValid THEN "send" ELSE "lock"]
            /\ ens' = [ens EXCEPT ![p] = IF tokenValid THEN Ens("fast", 0, 0)
                                         ELSE Ens("slow", RenewDone, 0)]
            /\ UNCHANGED <<result, tok>>
    /\ UNCHANGED <<cfgVars, authVars, bodyVars, credVars, authMutex, clockVars, attempt, ctxDone,
                   budget, hist, delays, histVars>>

\* A bug ensureAuthenticated could have: a lock that excludes nobody.
LockAuthNoExclusion(p) ==
    /\ pc[p] = "lock"
    /\ authMutex' = p
    /\ pc' = [pc EXCEPT ![p] = "recheck"]
    /\ UNCHANGED <<cfgVars, authVars, bodyVars, credVars, clockVars, attempt, tok, ctxDone, result,
                   budget, ens, hist, delays, histVars>>

\* ac.authMutex.Lock()
LockAuth(p) ==
    /\ pc[p] = "lock"
    /\ authMutex = 0
    /\ authMutex' = p
    /\ pc' = [pc EXCEPT ![p] = "recheck"]
    /\ UNCHANGED <<cfgVars, authVars, bodyVars, credVars, clockVars, attempt, tok, ctxDone, result,
                   budget, ens, hist, delays, histVars>>

\* A bug ensureAuthenticated could have: no second look under authMutex.
RecheckNoSecondLook(p) ==
    /\ pc[p] = "recheck"
    /\ authMutex' = authMutex
    /\ pc' = [pc EXCEPT ![p] = "renewing"]
    /\ renewCalls' = renewCalls + 1
    /\ pending401' = FALSE
    /\ ens' = [ens EXCEPT ![p].path = "renewing", ![p].id = renewCalls + 1]
    /\ UNCHANGED <<cfgVars, authVars, bodyVars, credVars, clockVars, attempt, tok, ctxDone, result,
                   budget, hist, delays, renewAllOK, invalidated, cred0Valid, authReply>>

\* A bug ensureAuthenticated could have: authMutex is not released when the
\* second look finds the credential valid.
RecheckNoUnlock(p) ==
    /\ pc[p] = "recheck"
    /\ authMutex' = authMutex
    /\ IF tokenValid
       THEN /\ pc' = [pc EXCEPT ![p] = "send"]
            /\ ens' = [ens EXCEPT ![p].path = "waited"]
            /\ UNCHANGED <<renewCalls, pending401>>
       ELSE /\ pc' = [pc EXCEPT ![p] = "renewing"]
            /\ renewCalls' = renewCalls + 1
            /\ pending401' = FALSE
            /\ ens' = [ens EXCEPT ![p].path = "renewing", ![p].id = renewCalls + 1]
    /\ UNCHANGED <<cfgVars, authVars, bodyVars, credVars, clockVars, attempt, tok, ctxDone, result,
                   budget, hist, delays, renewAllOK, invalidated, cred0Valid, authReply>>

\* The second tokenValid() of ensureAuthenticated, under authMutex: return
\* nil (and unlock), or call reauthenticate, whose auth request leaves.
Recheck(p) ==
    /\ pc[p] = "recheck"
    /\ IF tokenValid
       THEN /\ authMutex' = 0
            /\ pc' = [pc EXCEPT ![p] = "send"]
            /\ ens' = [ens EXCEPT ![p].path = "waited"]
            /\ UNCHANGED <<renewCalls, pending401>>
       ELSE /\ authMutex' = authMutex
            /\ pc' = [pc EXCEPT ![p] = "renewing"]
            /\ renewCalls' = renewCalls + 1
            /\ pending401' = FALSE
            /\ ens' = [ens EXCEPT ![p].path = "renewing", ![p].id = renewCalls + 1]
    /\ UNCHANGED <<cfgVars, authVars, bodyVars, credVars, clockVars, attempt, tok, ctxDone, result,
                   budget, hist, delays, renewAllOK, invalidated, cred0Valid, authReply>>

\* A bug reauthenticate could have: no test for the missing token.
reauthenticateErrNoTokenTest(r) ==
    CASE r.k = "neterr" -> "auth_request_failed"
      [] r.k = "readerr" -> "auth_read_failed"
      [] r.k = "status" -> mapHTTPError(r.status)
      [] r.k = "badjson" -> "auth_parse_failed"
      [] OTHER -> "nil"

\* What reauthenticate returns on reply r of the auth endpoint.
reauthenticateErr(r) ==
    CASE r.k = "neterr" -> "auth_request_failed"
      [] r.k = "readerr" -> "auth_read_failed"
      [] r.k = "status" -> mapHTTPError(r.status)
      [] r.k = "badjson" -> "auth_parse_failed"
      [] r.k = "notoken" -> "auth_token_missing"
      [] OTHER -> "nil"

\* A bug Do could have: an error of ensureAuthenticated is treated like a
\* transport error, the iteration is retried after a wait.
RenewReplyErrorRetried(p, r) ==
    /\ pc[p] = "renewing"
    /\ authMutex' = 0
    /\ IF r.k = "status"
       THEN token' = 0 /\ tokenExpires' = 0
       ELSE IF r.k = "token"
       THEN token' = TokenOf(renewCalls) /\ tokenExpires' = now + ValidityWindow
       ELSE UNCHANGED credVars
    /\ renewAllOK' = (renewAllOK /\ r.k = "token")
    /\ authReply' = [authReply EXCEPT ![p] = r]
    /\ IF reauthenticateErr(r) # "nil" /\ attempt[p] = maxRetries
       THEN Return(p, 0, Err(reauthenticateErr(r), r.status, renewCalls))
       ELSE /\ pc' = [pc EXCEPT ![p] = IF reauthenticateErr(r) # "nil" THEN "wait" ELSE "send"]
            /\ ens' = [ens EXCEPT ![p].path = "renewed"]
            /\ UNCHANGED <<result, tok>>
    /\ UNCHANGED <<cfgVars, authVars, bodyVars, clockVars, attempt, ctxDone, budget, hist, delays, renewCalls,
                   invalidated, pending401, cred0Valid>>

\* reauthenticate from the reply of the auth endpoint to its return, and
\* ensureAuthenticated's deferred authMutex.Unlock().
RenewReply(p, r) ==
    /\ pc[p] = "renewing"
    /\ authMutex' = 0
    /\ IF r.k = "status"
       THEN token' = 0 /\ tokenExpires' = 0
       ELSE IF r.k = "token"
       THEN token' = TokenOf(renewCalls) /\ tokenExpires' = now + ValidityWindow
       ELSE UNCHANGED credVars
    /\ renewAllOK' = (renewAllOK /\ r.k = "token")
    /\ authReply' = [authReply EXCEPT ![p] = r]
    /\ IF reauthenticateErr(r) # "nil"
       THEN Return(p, 0, Err(reauthenticateErr(r), r.status, renewCalls))
       ELSE /\ pc' = [pc EXCEPT ![p] = "send"]
            /\ ens' = [ens EXCEPT ![p].path = "renewed"]
            /\ UNCHANGED <<result, tok>>
    /\ UNCHANGED <<cfgVars, authVars, bodyVars, clockVars, attempt, ctxDone, budget, hist, delays, renewCalls,
                   invalidated, pending401, cred0Valid>>

\* A bug Do could have: the request is built from the parameter body, which
\* the first use has drained.
ReqBodyFromParameter(p) == body[p]

\* reqBody: a new reader over bodyBytes, or nil.
ReqBody(p) == IF bodyBytes[p].nil THEN NoBody ELSE NewReader(bodyBytes[p])

\* What the transport sends for a request built with reader r (it reads r to
\* its end), and whether the request carries Content-Type: application/json.
Sent(r, b) ==
    [nil |-> r.nil, data |-> IF r.nil THEN <<>> ELSE ReadAll(r).data.data, json |-> ~b.nil]

\* token := ac.readToken(); the request is built (with an Authorization
\* header only if token # "") and handed to the transport.
SendRequest(p) ==
    /\ pc[p] = "send"
    /\ tok' = [tok EXCEPT ![p] = token]
    /\ pc' = [pc EXCEPT ![p] = "inflight"]
    /\ ens' = [ens EXCEPT ![p] = NoEns]
    /\ sent' = [sent EXCEPT ![p] = Append(@, Sent(ReqBody(p), bodyBytes[p]))]
    /\ UNCHANGED <<cfgVars, authVars, body, bodyBytes, given, credVars, authMutex,
                   clockVars, attempt, ctxDone, result, budget, hist, delays, histVars>>

\* wait: the delay of the timer that follows attempt i, with client.backoff b.
Delay(b, i) == Shl(ToBits(IF b <= 0 THEN DefaultBackoff ELSE b), i)

\* A bug the test for the last attempt could have: off by one.
LastAttemptOffByOne(p) == attempt[p] = maxRetries - 1

\* attempt == attempts
LastAttempt(p) == attempt[p] = maxRetries

\* httpClient.Do returns an error.
TransportError(p) ==
    /\ pc[p] = "inflight"
    /\ IF LastAttempt(p)
       THEN /\ Return(p, 0, Err("transport", 0, attempt[p]))
            /\ hist' = [hist EXCEPT ![p] = Append(@, Attempt(0, FALSE, FALSE))]
            /\ UNCHANGED delays
       ELSE /\ pc' = [pc EXCEPT ![p] = "wait"]
            /\ hist' = [hist EXCEPT ![p] = Append(@, Attempt(0, FALSE, TRUE))]
            /\ delays' = [delays EXCEPT ![p] = Append(@, Delay(backoff, attempt[p]))]
            /\ tok' = [tok EXCEPT ![p] = 0]
            /\ UNCHANGED <<result, ens>>
    /\ UNCHANGED <<cfgVars, authVars, bodyVars, credVars, authMutex, clockVars, attempt, ctxDone,
                   budget, histVars>>

\* Bugs the test for a rejected credential could have: 403 forgotten.
InvalidatesOn401Only(s) == s = StatusUnauthorized

\* resp.StatusCode == http.StatusUnauthorized || resp.StatusCode == http.StatusForbidden
Invalidates(s) == s = StatusUnauthorized \/ s = StatusForbidden

\* Bugs the test for a retried response could have: the last attempt
\* retried too, server errors retried too.
RetriedOffByOne(p, s) == s = StatusTooManyRequests /\ attempt[p] <= maxRetries
RetriedWith5xx(p, s) == (s = StatusTooManyRequests \/ s >= 500) /\ attempt[p] < maxRetries

\* A bug the same test could have: every error status retried.
RetriedOnError(p, s) == s >= 400 /\ attempt[p] < maxRetries

\* resp.StatusCode == http.StatusTooManyRequests && attempt < attempts
Retried(p, s) == s = StatusTooManyRequests /\ attempt[p] < maxRetries

\* A bug Do could have: the 429 response is not closed before the retry.
ResponseLeftOpen(p, s) ==
    /\ pc[p] = "inflight"
    /\ IF Invalidates(s)
       THEN /\ token' = 0 /\ tokenExpires' = 0
            /\ invalidated' = TRUE
            /\ pending401' = (\A q \in Callers \ {p} : ~Running(q))
       ELSE UNCHANGED <<credVars, invalidated, pending401>>
    /\ IF Retried(p, s)
       THEN /\ pc' = [pc EXCEPT ![p] = "wait"]
            /\ hist' = [hist EXCEPT ![p] = Append(@, Attempt(s, FALSE, TRUE))]
            /\ delays' = [delays EXCEPT ![p] = Append(@, Delay(backoff, attempt[p]))]
            /\ tok' = [tok EXCEPT ![p] = 0]
            /\ UNCHANGED <<result, ens>>
       ELSE /\ Return(p, s, NoErr)
            /\ hist' = [hist EXCEPT ![p] = Append(@, Attempt(s, FALSE, FALSE))]
            /\ UNCHANGED delays
    /\ UNCHANGED <<cfgVars, authVars, bodyVars, authMutex, clockVars, attempt, ctxDone, budget,
                   renewCalls, renewAllOK, cred0Valid, authReply>>

\* httpClient.Do returns a response with status s: clearToken() on 401/403;
\* a 429 with attempts left is closed and retried after a wait; any other
\* response is returned.
Response(p, s) ==
    /\ pc[p] = "inflight"
    /\ IF Invalidates(s)
       THEN /\ token' = 0 /\ tokenExpires' = 0
            /\ invalidated' = TRUE
            /\ pending401' = (\A q \in Callers \ {p} : ~Running(q))
       ELSE UNCHANGED <<credVars, invalidated, pending401>>
    /\ IF Retried(p, s)
       THEN /\ pc' = [pc EXCEPT ![p] = "wait"]
            /\ hist' = [hist EXCEPT ![p] = Append(@, Attempt(s, TRUE, TRUE))]
            /\ delays' = [delays EXCEPT ![p] = Append(@, Delay(backoff, attempt[p]))]
            /\ tok' = [tok EXCEPT ![p] = 0]
            /\ UNCHANGED <<result, ens>>
       ELSE /\ Return(p, s, NoErr)
            /\ hist' = [hist EXCEPT ![p] = Append(@, Attempt(s, FALSE, FALSE))]
            /\ UNCHANGED delays
    /\ UNCHANGED <<cfgVars, authVars, bodyVars, authMutex, clockVars, attempt, ctxDone, budget,
                   renewCalls, renewAllOK, cred0Valid, authReply>>

\* A bug the loop could have: the retry does not advance attempt.
TimerFiresNoAdvance(p) ==
    /\ pc[p] = "wait"
    /\ pc' = [pc EXCEPT ![p] = "loop"]
    /\ UNCHANGED <<cfgVars, authVars, bodyVars, credVars, authMutex, clockVars, attempt, tok, ctxDone,
                   result, budget, ens, hist, delays, histVars>>

\* wait: the timer fires, Do continues with the next attempt.
TimerFires(p) ==
    /\ pc[p] = "wait"
    /\ attempt' = [attempt EXCEPT ![p] = @ + 1]
    /\ pc' = [pc EXCEPT ![p] = "loop"]
    /\ UNCHANGED <<cfgVars, authVars, bodyVars, credVars, authMutex, clockVars, tok, ctxDone, result,
                   budget, ens, hist, delays, histVars>>

\* A bug Do could have: the error of wait is dropped, the loop goes on.
WaitCancelledIgnored(p) ==
    /\ pc[p] = "wait"
    /\ ctxDone[p]
    /\ attempt' = [attempt EXCEPT ![p] = @ + 1]
    /\ pc' = [pc EXCEPT ![p] = "loop"]
    /\ UNCHANGED <<cfgVars, authVars, bodyVars, credVars, authMutex, clockVars, tok, ctxDone, result,
                   budget, ens, hist, delays, histVars>>

\* wait: ctx.Done() is ready, Do returns ctx.Err().
WaitCancelled(p) ==
    /\ pc[p] = "wait"
    /\ ctxDone[p]
    /\ Return(p, 0, Err("ctx", 0, attempt[p]))
    /\ UNCHANGED <<cfgVars, authVars, bodyVars, credVars, authMutex, clockVars, attempt, ctxDone,
                   budget, hist, delays, histVars>>

\* The caller cancels the context of its running Do call.
Cancel(p) ==
    /\ p \in cancellable
    /\ Running(p)
    /\ ~ctxDone[p]
    /\ ctxDone' = [ctxDone EXCEPT ![p] = TRUE]
    /\ UNCHANGED <<cfgVars, authVars, bodyVars, credVars, authMutex, clockVars, pc, attempt, tok,
                   result, budget, ens, hist, delays, histVars>>

\* Time passes: an hour, or a whole validity window.
Tick(d) ==
    /\ ticks < MaxTicks
    /\ ticks' = ticks + 1
    /\ now' = now + d
    /\ UNCHANGED <<cfgVars, authVars, bodyVars, credVars, authMutex, pc, attempt, tok, ctxDone,
                   result, budget, ens, hist, delays, histVars>>

\* Every tokenMutex critical section is one step here: tokenMutex is free
\* before and after each step.
Next ==
    \/ \E p \in Callers : StartDo(p) /\ UNCHANGED tokenMutex
    \/ \E p \in Callers : LoopHead(p) /\ UNCHANGED tokenMutex
    \/ \E p \in Callers : LockAuth(p) /\ UNCHANGED tokenMutex
    \/ \E p \in Callers : Recheck(p) /\ UNCHANGED tokenMutex
    \/ \E p \in Callers, r \in AuthReplies : RenewReply(p, r) /\ UNCHANGED tokenMutex
    \/ \E p \in Callers : SendRequest(p) /\ UNCHANGED tokenMutex
    \/ \E p \in Callers : TransportError(p) /\ UNCHANGED tokenMutex
    \/ \E p \in Callers, s \in DoStatuses : Response(p, s) /\ UNCHANGED tokenMutex
    \/ \E p \in Callers : TimerFires(p) /\ UNCHANGED tokenMutex
    \/ \E p \in Callers : WaitCancelled(p) /\ UNCHANGED tokenMutex
    \/ \E p \in Callers : Cancel(p) /\ UNCHANGED tokenMutex
    \/ \E d \in {1, ValidityWindow} : Tick(d) /\ UNCHANGED tokenMutex

Spec == Init /\ [][Next]_vars

\* With maxRetries = 0 Do never waits, and context.Background() is never
\* cancelled: the steps left are these.
NextConc ==
    \/ \E p \in Callers : StartDo(p) /\ UNCHANGED tokenMutex
    \/ \E p \in Callers : LoopHead(p) /\ UNCHANGED tokenMutex
    \/ \E p \in Callers : LockAuth(p) /\ UNCHANGED tokenMutex
    \/ \E p \in Callers : Recheck(p) /\ UNCHANGED tokenMutex
    \/ \E p \in Callers, r \in AuthReplies : RenewReply(p, r) /\ UNCHANGED tokenMutex
    \/ \E p \in Callers : SendRequest(p) /\ UNCHANGED tokenMutex
    \/ \E p \in Callers : TransportError(p) /\ UNCHANGED tokenMutex
    \/ \E p \in Callers, s \in DoStatuses : Response(p, s) /\ UNCHANGED tokenMutex
    \/ \E d \in {1, ValidityWindow} : Tick(d) /\ UNCHANGED tokenMutex

SpecConc == InitConc /\ [][NextConc]_vars

\* Two callers make one Do call each on a client built WithRetry(1, _), with
\* context.Background(): a call can be in its backoff wait while the other
\* one runs.
InitRetry ==
    /\ InitClient({1}, [p \in Callers |-> IF p <= 2 THEN 1 ELSE 0], {})
    /\ bodies = {NoBody}
    /\ backoff = 0
    /\ InitPkg

NextRetry ==
    \/ NextConc
    \/ \E p \in Callers : TimerFires(p) /\ UNCHANGED tokenMutex

SpecRetry == InitRetry /\ [][NextRetry]_vars

\* The same calls within one hour, where every call that is made returns:
\* the auth endpoint and the transport answer (a reply or an error), the
\* timer of wait fires, authMutex.Lock() returns once the mutex is free, and
\* a goroutine that can run does.  Nothing makes a caller call Do.
DoStep(p) ==
    /\ \/ LoopHead(p)
       \/ LockAuth(p)
       \/ Recheck(p)
       \/ \E r \in AuthReplies : RenewReply(p, r)
       \/ SendRequest(p)
       \/ TransportError(p)
       \/ \E st \in DoStatuses : Response(p, st)
       \/ TimerFires(p)
    /\ UNCHANGED tokenMutex
Returns(p) == WF_vars(DoStep(p))

NextTerm ==
    \/ \E p \in Callers : StartDo(p) /\ UNCHANGED tokenMutex
    \/ \E p \in Callers : DoStep(p)
SpecTerm == InitRetry /\ [][NextTerm]_vars /\ \A p \in Callers : Returns(p)

\* From NewClient's Client: authentication, then the Do calls.
NextAuth ==
    \/ \E email \in Emails, password \in Passwords :
           Authenticate(email, password) /\ UNCHANGED tokenMutex
    \/ \E r \in AuthReplies : AuthenticateReply(r) /\ UNCHANGED tokenMutex
    \/ Next

SpecAuth == InitAuth /\ [][NextAuth]_vars

\* From the call of NewClient on.
NextNew ==
    \/ \E url \in BaseURLs, n \in -1..MaxRetriesBound, b \in {0, DefaultBackoff} :
           NewClient(url, n, b) /\ UNCHANGED tokenMutex
    \/ NextAuth

SpecNew == InitNew /\ [][NextNew]_vars

\* tokenValid applied to a credential state: each caller goes as far as
\* ensureAuthenticated's first tokenValid().
NextValid ==
    \/ \E p \in Callers : StartDo(p) /\ UNCHANGED tokenMutex
    \/ \E p \in Callers : LoopHead(p) /\ UNCHANGED tokenMutex

SpecValid == InitValid /\ [][NextValid]_vars

\* One Do call with any body.
SpecBody == InitBody /\ [][Next]_vars

\* The base backoffs given to WithRetry, in nanoseconds: negative, none,
\* 50ms, one second.
Backoffs == {-1, 0, 50000000, 1000000000}

\* One Do call on a client built with WithRetry(n, b), any n up to
\* ManyRetries and any b of Backoffs, holding a token that does not expire;
\* every attempt before the last ends in a transport error, so that every
\* wait the limit allows is reached.
InitBackoff ==
    /\ InitClient(RetryLimits(ManyRetries), [p \in Callers |-> IF p = 1 THEN 1 ELSE 0], {})
    /\ token = 1 /\ tokenExpires = 0
    /\ bodies = {NoBody}
    /\ backoff \in {WithRetry(0, b).backoff : b \in Backoffs}
    /\ InitPkg

NextBackoff ==
    \/ \E p \in Callers : StartDo(p) /\ UNCHANGED tokenMutex
    \/ \E p \in Callers : LoopHead(p) /\ UNCHANGED tokenMutex
    \/ \E p \in Callers : SendRequest(p) /\ UNCHANGED tokenMutex
    \/ \E p \in Callers : TransportError(p) /\ UNCHANGED tokenMutex
    \/ \E p \in Callers : Response(p, StatusOK) /\ UNCHANGED tokenMutex
    \/ \E p \in Callers : TimerFires(p) /\ UNCHANGED tokenMutex

SpecBackoff == InitBackoff /\ [][NextBackoff]_vars

\* The state of the clients.
clientVars ==
    <<maxRetries, backoff, baseURL, cancellable, bodies, bodyVars, credVars, authMutex,
      tokenMutex, clockVars, pc, attempt, tok, ctxDone, result, budget, ens, hist, delays,
      histVars, authVars>>

\* The statuses mapHTTPError is applied to.
Statuses ==
    {-1, 0, 100, 199, 200, 201, 204, 299, 300, 304, 399, 400, 401, 402, 403, 404, 405,
     409, 418, 422, 429, 499, 500, 503, 599, 600, 1000}

\* mapHTTPError(status, body)
MapHTTPError(status, respBody) ==
    /\ mapped' = [status |-> status, body |-> respBody, err |-> mapHTTPErrorValue(status, respBody)]
    /\ UNCHANGED <<clientVars, runnerVars, kvVars>>

\* mapHTTPError applied to any status and body, one call after the other.
InitMap ==
    /\ InitClient({0}, [p \in Callers |-> 0], {})
    /\ token = 1 /\ tokenExpires = 0
    /\ bodies = {NoBody}
    /\ backoff = 0
    /\ InitPkg

\* A client that makes no call.
InitQuiet ==
    /\ InitClient({0}, [p \in Callers |-> 0], {})
    /\ token = 1 /\ tokenExpires = 0
    /\ bodies = {NoBody}
    /\ backoff = 0

NextMap == \E status \in Statuses, respBody \in ErrBodies : MapHTTPError(status, respBody)

SpecMap == InitMap /\ [][NextMap]_vars

\* ------------------------------------------------------ migrations.Runner
\* The Runner is sequential.  Its requests go through the client's Do, which
\* is taken here by what it returns: the backend's answer, or a failure (an
\* error of Do or a status that is an error) that leaves the backend as it
\* was.  Up and Down are the caller's code: they succeed or fail.
MaxOps == 2            \* Run and Down calls made on one Runner

\* The migrations there are to register, by the string their Name() returns.
MigrationNames == << <<"c">>, <<" ", "a">>, <<"b", " ">> >>
Migs == 1..Len(MigrationNames)

\* What else Register can be given: a name registered already but for its
\* white space, a blank name, an empty one, and no migration at all.
MoreNames == << <<"a">>, <<" ">>, <<>> >>
NilMigration == 0
Name(m) == (MigrationNames \o MoreNames)[m]
RegisterArgs == {NilMigration} \cup (1..(Len(MigrationNames) + Len(MoreNames)))

\* s < t on strings: byte by byte, the bytes that occur in ascending order.
Alphabet == <<" ", "a", "b", "c", "z">>
Rank(ch) == CHOOSE i \in 1..Len(Alphabet) : Alphabet[i] = ch
RECURSIVE Less(_, _)
Less(s, t) ==
    IF t = <<>> THEN FALSE
    ELSE IF s = <<>> THEN TRUE
    ELSE IF Head(s) = Head(t) THEN Less(Tail(s), Tail(t))
    ELSE Rank(Head(s)) < Rank(Head(t))

\* A record of the migrations collection.
Rec(id, name, at) == [id |-> id, name |-> name, at |-> at]

\* What sort.Slice(s, less) can leave: s reordered (Reorderings) with no
\* pair out of order (Sorted, given the pairs <<x, y>> with less(x, y));
\* elements that less does not tell apart end in any order.
Reorderings(s) == {[i \in 1..Len(s) |-> s[f[i]]] : f \in Permutations(1..Len(s))}
Sorted(o, less) == \A i, j \in 1..Len(o) : i < j => <<o[j], o[i]>> \notin less
Orders(s, less) == {o \in Reorderings(s) : Sorted(o, less)}
ElemsOf(s) == {s[i] : i \in 1..Len(s)}

LessTrimmedName ==
    {p \in Migs \X Migs : Less(TrimSpace(Name(p[1])), TrimSpace(Name(p[2])))}
Before(recs) == {p \in ElemsOf(recs) \X ElemsOf(recs) : p[1].at < p[2].at}
After(recs) == {p \in ElemsOf(recs) \X ElemsOf(recs) : p[1].at > p[2].at}

\* A bug sortedMigrations could have: the registration order is kept.
sortedMigrationsUnsorted == {migrations}

sortedMigrations == Orders(migrations, LessTrimmedName)

\* A bug Down could have: the records are left as fetchApplied sorts them.
LatestFirstUnreversed == Orders(records, Before(records))

\* fetchApplied, then Down's sort: the records, the later applied first.
LatestFirst == Orders(records, After(records))

\* A bug Run could have: the records are not looked at.
RECURSIVE PendingOfAll(_, _)
PendingOfAll(sorted, appliedNames) ==
    IF sorted = <<>> THEN <<>>
    ELSE LET name == TrimSpace(Name(Head(sorted)))
             rest == PendingOfAll(Tail(sorted), appliedNames)
         IN  IF name = <<>> THEN rest ELSE <<Head(sorted)>> \o rest

\* The loop of Run over sorted: the migrations it does not skip, given the
\* names of the records fetchApplied returned.
RECURSIVE PendingOf(_, _)
PendingOf(sorted, appliedNames) ==
    IF sorted = <<>> THEN <<>>
    ELSE LET name == TrimSpace(Name(Head(sorted)))
             rest == PendingOf(Tail(sorted), appliedNames)
         IN  IF name = <<>> \/ name \in appliedNames THEN rest ELSE <<Head(sorted)>> \o rest

Call(e, name, ok) == [e |-> e, name |-> name, ok |-> ok]

\* The ways a request of ensureCollection or fetchApplied can fail.
Failures == {"none", "get", "create", "list"}

\* A bug ensureCollection could have: autoCreate is not looked at.
ensureCollectionAlwaysCreates(f) ==
    IF f = "get"
    THEN [err |-> RErr("request_failed", {}), exists |-> collectionExists, created |-> FALSE]
    ELSE IF collectionExists THEN [err |-> RNil, exists |-> TRUE, created |-> FALSE]
    ELSE IF f = "create"
    THEN [err |-> RErr("request_failed", {}), exists |-> FALSE, created |-> TRUE]
    ELSE [err |-> RNil, exists |-> TRUE, created |-> TRUE]

\* ensureCollection, with the request that fails (if any): the error it
\* returns, whether the collection exists afterwards, and whether it sent
\* the request that creates the collection.  The backend answers the GET
\* with 404 when the collection is missing.
ensureCollection(f) ==
    IF f = "get"
    THEN [err |-> RErr("request_failed", {}), exists |-> collectionExists, created |-> FALSE]
    ELSE IF collectionExists THEN [err |-> RNil, exists |-> TRUE, created |-> FALSE]
    ELSE IF ~autoCreate
    THEN [err |-> RErr("collection_not_found", {"ErrCollectionNotFound"}),
          exists |-> FALSE, created |-> FALSE]
    ELSE IF f = "create"
    THEN [err |-> RErr("request_failed", {}), exists |-> FALSE, created |-> TRUE]
    ELSE [err |-> RNil, exists |-> TRUE, created |-> TRUE]

\* What a call that begins with ensureCollection notes of it (history): the
\* request that failed, whether the collection existed, whether the request
\* that creates it was sent.
Ensure(f) ==
    Ensured(IF f = "create" /\ ~ensureCollection(f).created THEN "none" ELSE f,
            collectionExists, ensureCollection(f).created)

\* A Runner method returns.
RReturn(op, err) ==
    /\ rpc' = "idle"
    /\ todo' = <<>>
    /\ runRet' = Ret(op, err)

\* A bug Register could have: the name is not looked up in byName; the
\* assignment to the map replaces the entry of that name.
RegisterNoLookup(m) ==
    /\ rpc = "idle"
    /\ opsLeft = MaxOps
    /\ began' = Began("register", m, records, Len(called), runRet, NoEnsure)
    /\ IF m = NilMigration
       THEN /\ runRet' = Ret("register", RErr("migration_nil", {}))
            /\ UNCHANGED <<migrations, byName>>
       ELSE LET name == TrimSpace(Name(m))
            IN  IF name = <<>>
                THEN /\ runRet' = Ret("register", RErr("name_required", {}))
                     /\ UNCHANGED <<migrations, byName>>
                ELSE /\ byName' = {e \in byName : e[1] # name} \cup {<<name, m>>}
                     /\ migrations' = Append(migrations, m)
                     /\ runRet' = Ret("register", RNil)
    /\ UNCHANGED <<clientVars, mapped, kvVars, autoCreate, collectionExists, records, nextID, clock,
                   rpc, todo, opsLeft, called>>

\* Register(m).  The migrations are registered before the Runner's first Run
\* or Down, as the package's tests and README do.  byName is the map, as the
\* set of its <<name, migration>> entries.
Register(m) ==
    /\ rpc = "idle"
    /\ opsLeft = MaxOps
    /\ began' = Began("register", m, records, Len(called), runRet, NoEnsure)
    /\ IF m = NilMigration
       THEN /\ runRet' = Ret("register", RErr("migration_nil", {}))
            /\ UNCHANGED <<migrations, byName>>
       ELSE LET name == TrimSpace(Name(m))
            IN  IF name = <<>>
                THEN /\ runRet' = Ret("register", RErr("name_required", {}))
                     /\ UNCHANGED <<migrations, byName>>
                ELSE IF \E e \in byName : e[1] = name
                THEN /\ runRet' = Ret("register",
                                       RErr("duplicate_migration", {"ErrDuplicateMigration"}))
                     /\ UNCHANGED <<migrations, byName>>
                ELSE /\ byName' = {e \in byName : e[1] # name} \cup {<<name, m>>}
                     /\ migrations' = Append(migrations, m)
                     /\ runRet' = Ret("register", RNil)
    /\ UNCHANGED <<clientVars, mapped, kvVars, autoCreate, collectionExists, records, nextID, clock,
                   rpc, todo, opsLeft, called>>

\* Run, up to its loop: ensureCollection, fetchApplied, sortedMigrations.
RunStart(f) ==
    /\ rpc = "idle"
    /\ opsLeft > 0
    /\ opsLeft' = opsLeft - 1
    /\ began' = Began("run", 0, records, Len(called), runRet, Ensure(f))
    /\ collectionExists' = ensureCollection(f).exists
    /\ IF ensureCollection(f).err # RNil
       THEN RReturn("run", ensureCollection(f).err)
       ELSE IF f = "list"
       THEN RReturn("run", RErr("request_failed", {}))
       ELSE /\ \E sorted \in sortedMigrations :
                   todo' = PendingOf(sorted, {records[i].name : i \in 1..Len(records)})
            /\ rpc' = "run"
            /\ UNCHANGED runRet
    /\ UNCHANGED <<clientVars, mapped, kvVars, migrations, byName, autoCreate, records, nextID, clock,
                   called>>

\* Pending: ensureCollection, fetchApplied, the sorted migrations without
\* the recorded ones.  Applied: ensureCollection, fetchApplied.  Neither
\* calls a migration or writes a record.
Reads == {"pending", "applied"}
Read(op, f) ==
    /\ rpc = "idle"
    /\ opsLeft > 0
    /\ opsLeft' = opsLeft - 1
    /\ began' = Began(op, 0, records, Len(called), runRet, Ensure(f))
    /\ collectionExists' = ensureCollection(f).exists
    /\ IF ensureCollection(f).err # RNil
       THEN RReturn(op, ensureCollection(f).err)
       ELSE IF f = "list"
       THEN RReturn(op, RErr("request_failed", {}))
       ELSE RReturn(op, RNil)
    /\ UNCHANGED <<clientVars, mapped, kvVars, migrations, byName, autoCreate, records, nextID, clock,
                   called>>

\* Run: the loop has gone through every migration.
RunDone ==
    /\ rpc = "run"
    /\ todo = <<>>
    /\ RReturn("run", RNil)
    /\ UNCHANGED <<clientVars, mapped, kvVars, migrations, byName, autoCreate, collectionExists,
                   records, nextID, clock, opsLeft, called, began>>

\* A bug Run could have: the loop goes on after a failed Up.
UpFailureSkipped(ok) ==
    /\ rpc = "run"
    /\ todo # <<>>
    /\ called' = Append(called, Call("up", TrimSpace(Name(Head(todo))), ok))
    /\ IF ok
       THEN rpc' = "record" /\ UNCHANGED <<todo, runRet>>
       ELSE rpc' = "run" /\ todo' = Tail(todo) /\ UNCHANGED runRet
    /\ UNCHANGED <<clientVars, mapped, kvVars, migrations, byName, autoCreate, collectionExists,
                   records, nextID, clock, opsLeft, began>>

\* Run: m.Up(r.client) on the next migration; Run returns its error.  The
\* error wraps the migration's own error; ErrMigrationFailed is only part of
\* its text (%v).
Up(ok) ==
    /\ rpc = "run"
    /\ todo # <<>>
    /\ called' = Append(called, Call("up", TrimSpace(Name(Head(todo))), ok))
    /\ IF ok
       THEN rpc' = "record" /\ UNCHANGED <<todo, runRet>>
       ELSE RReturn("run", RErr("migration_failed", {"up_error"}))
    /\ UNCHANGED <<clientVars, mapped, kvVars, migrations, byName, autoCreate, collectionExists,
                   records, nextID, clock, opsLeft, began>>

\* Run: recordMigration(ctx, name) creates the record with AppliedAt =
\* time.Now(); Run returns its error.  The clock may or may not have moved
\* on, in the precision the backend keeps, when the next record is created.
recordMigration(ok) ==
    /\ rpc = "record"
    /\ called' = Append(called, Call("record", TrimSpace(Name(Head(todo))), ok))
    /\ IF ok
       THEN /\ records' = Append(records, Rec(nextID, TrimSpace(Name(Head(todo))), clock))
            /\ nextID' = nextID + 1
            /\ todo' = Tail(todo)
            /\ rpc' = "run"
            /\ UNCHANGED runRet
       ELSE /\ RReturn("run", RErr("record_migration", {"request_failed"}))
            /\ UNCHANGED <<records, nextID>>
    /\ \E d \in {0, 1} : clock' = clock + d
    /\ UNCHANGED <<clientVars, mapped, kvVars, migrations, byName, autoCreate, collectionExists,
                   opsLeft, began>>

\* The arguments Down is called with.
DownArgs == {-1, 0, 1, 2, Len(MigrationNames) + 1}

\* n > len(applied): n = len(applied)
Min(a, b) == IF a < b THEN a ELSE b

\* Down(n), up to its loop: nothing for n <= 0, else ensureCollection,
\* fetchApplied, the sort, the cut to n records.
DownStart(n, f) ==
    /\ rpc = "idle"
    /\ opsLeft > 0
    /\ opsLeft' = opsLeft - 1
    /\ began' = Began("down", n, records, Len(called), runRet,
                      IF n <= 0 THEN NoEnsure ELSE Ensure(f))
    /\ IF n <= 0
       THEN RReturn("down", RNil) /\ UNCHANGED collectionExists
       ELSE /\ collectionExists' = ensureCollection(f).exists
            /\ IF ensureCollection(f).err # RNil
               THEN RReturn("down", ensureCollection(f).err)
               ELSE IF f = "list"
               THEN RReturn("down", RErr("request_failed", {}))
               ELSE /\ \E applied \in LatestFirst :
                           todo' = SubSeq(applied, 1, Min(n, Len(applied)))
                    /\ rpc' = "down"
                    /\ UNCHANGED runRet
    /\ UNCHANGED <<clientVars, mapped, kvVars, migrations, byName, autoCreate, records, nextID, clock,
                   called>>

\* Down: the loop has gone through its n records.
DownDone ==
    /\ rpc = "down"
    /\ todo = <<>>
    /\ RReturn("down", RNil)
    /\ UNCHANGED <<clientVars, mapped, kvVars, migrations, byName, autoCreate, collectionExists,
                   records, nextID, clock, opsLeft, called, began>>

\* Down: the migration of the next record is looked up by the record's name
\* and its Down is called; Down returns ErrMigrationNotFound when there is
\* none, and the error of the call.
DownCall(ok) ==
    /\ rpc = "down"
    /\ todo # <<>>
    /\ IF ~\E e \in byName : e[1] = Head(todo).name
       THEN /\ RReturn("down", RErr("migration_not_found", {"ErrMigrationNotFound"}))
            /\ UNCHANGED called
       ELSE /\ called' = Append(called, Call("down", Head(todo).name, ok))
            /\ IF ok
               THEN rpc' = "delete" /\ UNCHANGED <<todo, runRet>>
               ELSE RReturn("down", RErr("migration_failed", {"down_error"}))
    /\ UNCHANGED <<clientVars, mapped, kvVars, migrations, byName, autoCreate, collectionExists,
                   records, nextID, clock, opsLeft, began>>

\* Down: deleteMigration(ctx, rec) deletes the record by its id (0 stands for
\* a blank id); Down returns its error.
deleteMigration(ok) ==
    /\ rpc = "delete"
    /\ IF Head(todo).id = 0
       THEN /\ RReturn("down", RErr("delete_migration", {"ErrMigrationNotFound"}))
            /\ UNCHANGED <<records, called>>
       ELSE /\ called' = Append(called, Call("delete", Head(todo).name, ok))
            /\ IF ok
               THEN /\ records' = SelectSeq(records, LAMBDA r : r.id # Head(todo).id)
                    /\ todo' = Tail(todo)
                    /\ rpc' = "down"
                    /\ UNCHANGED runRet
               ELSE /\ RReturn("down", RErr("delete_migration", {"request_failed"}))
                    /\ UNCHANGED records
    /\ UNCHANGED <<clientVars, mapped, kvVars, migrations, byName, autoCreate, collectionExists,
                   nextID, clock, opsLeft, began>>

\* A Runner made by NewRunner, with WithAutoCreate(true or false), on a
\* backend where the collection exists or not and, when it does, holds no
\* record or one of a migration that is not registered here.
InitRunner ==
    /\ InitQuiet
    /\ mapped = NoMapped
    /\ InitNoKV
    /\ migrations = <<>> /\ byName = {}
    /\ autoCreate \in BOOLEAN
    /\ collectionExists \in BOOLEAN
    /\ records \in {<<>>} \cup (IF collectionExists THEN {<<Rec(1, <<"z">>, 0)>>} ELSE {})
    /\ nextID = Len(records) + 1
    /\ clock = 1
    /\ rpc = "idle" /\ todo = <<>> /\ runRet = NoRet
    /\ opsLeft = MaxOps
    /\ called = <<>> /\ began = NoBegan

NextRunner ==
    \/ \E m \in Migs : Register(m)
    \/ \E f \in Failures : RunStart(f)
    \/ RunDone
    \/ \E ok \in BOOLEAN : Up(ok)
    \/ \E ok \in BOOLEAN : recordMigration(ok)
    \/ \E n \in DownArgs, f \in Failures : DownStart(n, f)
    \/ DownDone
    \/ \E ok \in BOOLEAN : DownCall(ok)
    \/ \E ok \in BOOLEAN : deleteMigration(ok)

SpecRunner == InitRunner /\ [][NextRunner]_vars

\* The Runner of a backend that has no migrations collection, with Pending
\* and Applied called as well.
InitMissing == InitRunner /\ ~collectionExists
NextMissing ==
    \/ NextRunner
    \/ \E op \in Reads, f \in Failures : Read(op, f)
SpecMissing == InitMissing /\ [][NextMissing]_vars

\* Register alone, called with every kind of argument in every order.
NextRegister == \E m \in RegisterArgs : Register(m)
SpecRegister == InitRunner /\ [][NextRegister]_vars

\* ----------------------------------------------------------------- KVStore
\* KVStore.Delete, called by several callers at once.  Its two requests go
\* through the client's Do, taken by what it returns: the backend's answer,
\* or a failure.  The backend keeps at most one record for a key.
KVRec(id, key) == [id |-> id, key |-> key]
KVKeys == {<<"k">>, <<"k", " ">>, <<"j">>, <<" ">>}
StatusNoContent == 204
StatusNotFound == 404

\* The answer to the DELETE of a record: 204 when it is there, else 404.
DeleteStatus(id) ==
    IF \E r \in kvStore : r.id = id THEN StatusNoContent ELSE StatusNotFound

KVReturn(p, err) ==
    kvCall' = [kvCall EXCEPT ![p].pc = "idle", ![p].ret = Ret("delete", err)]

\* Delete(ctx, key), up to the request of getRecordIDByKey.
KVDelete(p, key) ==
    /\ kvCall[p].pc = "idle"
    /\ kvLeft[p] > 0
    /\ kvLeft' = [kvLeft EXCEPT ![p] = @ - 1]
    /\ LET k == TrimSpace(key)
       IN  kvCall' = [kvCall EXCEPT ![p] =
               IF k = <<>>
               THEN KVCall("idle", k, 0, Ret("delete", RErr("key_required", {})), TRUE)
               ELSE KVCall("lookup", k, 0, NoRet, ~\E r \in kvStore : r.key = k)]
    /\ UNCHANGED <<clientVars, mapped, runnerVars, kvStore>>

\* getRecordIDByKey is answered: the request failed, or no item (ErrNotFound,
\* for which Delete returns nil), or the id of the record of the key.
KVLookup(p, ok) ==
    /\ kvCall[p].pc = "lookup"
    /\ IF ~ok
       THEN KVReturn(p, RErr("request_failed", {}))
       ELSE LET items == {r \in kvStore : r.key = kvCall[p].key}
            IN  IF items = {}
                THEN KVReturn(p, RNil)
                ELSE \E r \in items :
                         kvCall' = [kvCall EXCEPT ![p].pc = "found", ![p].id = r.id]
    /\ UNCHANGED <<clientVars, mapped, runnerVars, kvStore, kvLeft>>

\* The DELETE is answered: the request failed, or 200/204 (nil), or another
\* status, which decodeJSONResponse maps with mapHTTPError.
KVDeleteRequest(p, ok) ==
    /\ kvCall[p].pc = "found"
    /\ IF ~ok
       THEN KVReturn(p, RErr("request_failed", {})) /\ UNCHANGED kvStore
       ELSE LET status == DeleteStatus(kvCall[p].id)
            IN  /\ kvStore' = {r \in kvStore : r.id # kvCall[p].id}
                /\ IF status = StatusNoContent \/ status = StatusOK
                      \/ mapHTTPError(status) = "nil"
                   THEN KVReturn(p, RNil)
                   ELSE KVReturn(p, RErr("status", {mapHTTPError(status)}))
    /\ UNCHANGED <<clientVars, mapped, runnerVars, kvLeft>>

InitKV ==
    /\ InitQuiet
    /\ mapped = NoMapped
    /\ InitNoRunner
    /\ kvStore \in SUBSET {KVRec(1, <<"k">>), KVRec(2, <<"j">>)}
    /\ kvCall = [p \in Callers |-> NoKVCall]
    /\ kvLeft = [p \in Callers |-> MaxCalls]

NextKV ==
    \/ \E p \in Callers, key \in KVKeys : KVDelete(p, key)
    \/ \E p \in Callers, ok \in BOOLEAN : KVLookup(p, ok)
    \/ \E p \in Callers, ok \in BOOLEAN : KVDeleteRequest(p, ok)

SpecKV == InitKV /\ [][NextKV]_vars

\* ------------------------------------------------- tokenMutex, step by step
\* The same steps with tokenMutex taken and released as the code does: a
\* critical section is two steps, the lock is acquired, then the section runs
\* and the lock is released (tokenValid, readToken and clearToken release it
\* by a deferred call when they return, reauthenticate's store at once).
Holds(p, mode) == tokenMutex[p] = mode
Unlock(p) == tokenMutex' = [tokenMutex EXCEPT ![p] = ""]

\* ac.tokenMutex.RLock() in tokenValid and readToken: it waits while a
\* caller holds tokenMutex for writing or waits in Lock().
RLockToken(p) ==
    /\ pc[p] \in {"loop", "recheck", "send"}
    /\ Holds(p, "")
    /\ \A q \in Callers : tokenMutex[q] \notin {"w?", "w"}
    /\ tokenMutex' = [tokenMutex EXCEPT ![p] = "r"]
    /\ UNCHANGED <<cfgVars, authVars, bodyVars, credVars, authMutex, clockVars, pc, attempt, tok,
                   ctxDone, result, budget, ens, hist, delays, histVars>>

\* The reply has arrived that makes p write the credential: a 401/403 to its
\* request (clearToken), a status other than 200 to its renewal (clearToken)
\* or a 200 with a token (the store).  p calls ac.tokenMutex.Lock().
ReplyToLock(p) ==
    /\ pc[p] \in {"inflight", "renewing"}
    /\ Holds(p, "")
    /\ tokenMutex' = [tokenMutex EXCEPT ![p] = "w?"]
    /\ UNCHANGED <<cfgVars, authVars, bodyVars, credVars, authMutex, clockVars, pc, attempt, tok,
                   ctxDone, result, budget, ens, hist, delays, histVars>>

\* ac.tokenMutex.Lock() returns: nobody holds tokenMutex.
LockToken(p) ==
    /\ Holds(p, "w?")
    /\ \A q \in Callers : tokenMutex[q] \notin {"r", "w"}
    /\ tokenMutex' = [tokenMutex EXCEPT ![p] = "w"]
    /\ UNCHANGED <<cfgVars, authVars, bodyVars, credVars, authMutex, clockVars, pc, attempt, tok,
                   ctxDone, result, budget, ens, hist, delays, histVars>>

\* The replies on which reauthenticate writes the credential.
Writes(r) == r.k \in {"status", "token"}

\* A bug ensureAuthenticated could have: the read lock of its first
\* tokenValid() is still held when it calls authMutex.Lock().
LoopHeadLockedHeld(p) ==
    /\ Holds(p, "r")
    /\ LoopHead(p)
    /\ IF pc'[p] = "lock" THEN UNCHANGED tokenMutex ELSE Unlock(p)

LoopHeadLocked(p) == Holds(p, "r") /\ LoopHead(p) /\ Unlock(p)

\* A bug ensureAuthenticated could have: the read lock of its second
\* tokenValid() is still held when reauthenticate is called.
RecheckLockedHeld(p) ==
    /\ Holds(p, "r")
    /\ Recheck(p)
    /\ IF tokenValid THEN Unlock(p) ELSE UNCHANGED tokenMutex

RecheckLocked(p) == Holds(p, "r") /\ Recheck(p) /\ Unlock(p)
SendRequestLocked(p) == Holds(p, "r") /\ SendRequest(p) /\ Unlock(p)
RenewReplyLocked(p, r) ==
    IF Writes(r) THEN Holds(p, "w") /\ RenewReply(p, r) /\ Unlock(p)
    ELSE Holds(p, "") /\ RenewReply(p, r) /\ UNCHANGED tokenMutex
ResponseLocked(p, s) ==
    IF Invalidates(s) THEN Holds(p, "w") /\ Response(p, s) /\ Unlock(p)
    ELSE Holds(p, "") /\ Response(p, s) /\ UNCHANGED tokenMutex

NextLocks ==
    \/ \E p \in Callers : StartDo(p) /\ UNCHANGED tokenMutex
    \/ \E p \in Callers : RLockToken(p)
    \/ \E p \in Callers : ReplyToLock(p)
    \/ \E p \in Callers : LockToken(p)
    \/ \E p \in Callers : LoopHeadLocked(p)
    \/ \E p \in Callers : Holds(p, "") /\ LockAuth(p) /\ UNCHANGED tokenMutex
    \/ \E p \in Callers : RecheckLocked(p)
    \/ \E p \in Callers, r \in AuthReplies : RenewReplyLocked(p, r)
    \/ \E p \in Callers : SendRequestLocked(p)
    \/ \E p \in Callers : Holds(p, "") /\ TransportError(p) /\ UNCHANGED tokenMutex
    \/ \E p \in Callers, s \in DoStatuses : ResponseLocked(p, s)

\* Concurrent Do calls as in SpecConc, tokenMutex step by step, within one
\* hour.
SpecLocks == InitConc /\ [][NextLocks]_vars

\* ------------------------------------------------------------------ claims
Done(p) == pc[p] = "done"
Attempts(p) == 1..Len(hist[p])

\* The error came out of ensureAuthenticated.
IsAuthErr(e) == e.kind \notin {"nil", "transport", "ctx", "retries", "read_body"}

\* Requests of p's Do call that were handed to the transport.
Execs(p) == Len(hist[p]) + (IF pc[p] = "inflight" THEN 1 ELSE 0)

\* Retry slots p's Do call has used.
Retries(p) == Cardinality({i \in Attempts(p) : hist[p][i].waited})

\* Less than a validity window has passed since the start: no token a
\* renewal has stored can have expired.
WithinWindow == now - Epoch < ValidityWindow

\* C1: callers that call ensureAuthenticated concurrently while the
\* credential is invalid, with an auth endpoint that answers every renewal
\* with a token and no invalidation in between, issue one renewal call
\* between them; none gets an error; every caller that ensureAuthenticated
\* has let through finds the token of that one renewal cached.
C1_SingleFlightOnSuccess ==
    (~cred0Valid /\ renewAllOK /\ ~invalidated /\ WithinWindow) =>
        /\ renewCalls <= 1
        /\ \A p \in Callers : ~IsAuthErr(result[p].err)
        /\ \A p \in Callers :
               pc[p] \in {"send", "inflight", "done"} =>
                   /\ renewCalls = 1 /\ ~RenewInFlight
                   /\ token = TokenOf(1) /\ tokenValid

\* Two callers were inside ensureAuthenticated at once: one renewed, the
\* other found the credential invalid before that renewal had finished,
\* waited for authMutex and then found the credential valid.
C1_Witness ==
    /\ ~cred0Valid /\ renewAllOK /\ ~invalidated /\ WithinWindow
    /\ \E p, q \in Callers :
           /\ pc[p] = "send" /\ ens[p].path = "renewed"
           /\ pc[q] = "send" /\ ens[q].path = "waited" /\ ens[q].x = 0

\* C2: callers that call ensureAuthenticated concurrently while the
\* credential is invalid share one renewal also when it fails: a caller
\* issues a renewal only if none has finished since it found the credential
\* invalid (the error it returns is that of the renewal it waited for).
C2_SingleFlightOnFailure ==
    (~cred0Valid /\ ~invalidated /\ WithinWindow) =>
        \A p \in Callers : pc[p] = "renewing" => ens[p].id = ens[p].x + 1

\* C3: no request is handed to the transport with an empty token.
C3_NoRequestWithoutToken ==
    \A p \in Callers : pc[p] = "inflight" => tok[p] # 0

\* C4: a Do call executes at most maxRetries + 1 requests, with attempt
\* indices 0..maxRetries in this order, and transport errors and 429
\* responses together use at most maxRetries retry slots.
C4_AttemptsBounded ==
    \A p \in Callers :
        /\ Execs(p) >= 0 /\ Execs(p) <= maxRetries + 1
        /\ Retries(p) <= maxRetries
        /\ pc[p] \in {"send", "inflight"} =>
               attempt[p] \in 0..maxRetries /\ attempt[p] = Len(hist[p])

\* A call that used every slot, on a transport error and on a 429.
C4_Witness ==
    \E p \in Callers :
        /\ Done(p) /\ maxRetries >= 2 /\ Len(hist[p]) = maxRetries + 1
        /\ hist[p][1].out = 0 /\ hist[p][2].out = StatusTooManyRequests

\* p's Do call has returned, its ctx was not cancelled, ensureAuthenticated
\* returned nil in every iteration, and at least one request was executed.
Completed(p) ==
    /\ Done(p) /\ ~ctxDone[p] /\ ~IsAuthErr(result[p].err)
    /\ hist[p] # <<>>

\* C5: a Do call whose every attempt ends in a transport error (ctx not
\* cancelled, credential valid) executes maxRetries + 1 attempts, waits
\* after each but the last, and returns the last attempt's transport error
\* and no response.
C5_AllTransportFailures ==
    \A p \in Callers :
        (Completed(p) /\ \A i \in Attempts(p) : hist[p][i].out = 0) =>
            /\ Len(hist[p]) = maxRetries + 1
            /\ \A i \in Attempts(p) : hist[p][i].waited <=> i <= maxRetries
            /\ result[p] = [resp |-> 0, err |-> Err("transport", 0, maxRetries)]

C5_Witness ==
    \E p \in Callers :
        /\ Completed(p) /\ maxRetries = 2 /\ Len(hist[p]) = 3
        /\ \A i \in Attempts(p) : hist[p][i].out = 0

\* C6: when the first k attempts of a Do call end in a transport error and
\* attempt k + 1 gets a response other than 429, that attempt is the last
\* one (k <= maxRetries) and Do returns that response and a nil error.
C6_FailThenResponse ==
    \A p \in Callers : \A i \in Attempts(p) :
        ((\A j \in 1..(i - 1) : hist[p][j].out = 0)
              /\ hist[p][i].out \notin {0, StatusTooManyRequests}) =>
            /\ i = Len(hist[p]) /\ i - 1 <= maxRetries
            /\ \A j \in 1..(i - 1) : hist[p][j].waited
            /\ Done(p)
            /\ result[p] = [resp |-> hist[p][i].out, err |-> NoErr]

\* maxRetries = 2, one transport error, then 200: two attempts.
C6_Witness ==
    \E p \in Callers :
        /\ Completed(p) /\ maxRetries = 2 /\ Len(hist[p]) = 2
        /\ hist[p][1].out = 0 /\ hist[p][2].out = StatusOK
        /\ result[p] = [resp |-> StatusOK, err |-> NoErr]

\* C7: when the first r attempts of a Do call get a 429 and attempt r + 1 a
\* 200, that attempt is the last one (r <= maxRetries) and Do returns the
\* 200 and a nil error; every 429 that leaves a retry slot is closed by Do
\* and followed by a wait.
C7_RateLimitedThenSuccess ==
    \A p \in Callers :
        /\ \A i \in Attempts(p) :
               ((\A j \in 1..(i - 1) : hist[p][j].out = StatusTooManyRequests)
                     /\ hist[p][i].out = StatusOK) =>
                   /\ i = Len(hist[p]) /\ i - 1 <= maxRetries
                   /\ Done(p)
                   /\ result[p] = [resp |-> StatusOK, err |-> NoErr]
        /\ \A j \in Attempts(p) :
               (hist[p][j].out = StatusTooManyRequests /\ j - 1 < maxRetries) =>
                   hist[p][j].closed /\ hist[p][j].waited

\* maxRetries = 2, two 429, then 200: three attempts.
C7_Witness ==
    \E p \in Callers :
        /\ Completed(p) /\ maxRetries = 2 /\ Len(hist[p]) = 3
        /\ hist[p][1].out = StatusTooManyRequests
        /\ hist[p][2].out = StatusTooManyRequests
        /\ hist[p][3].out = StatusOK

\* C8: a 429 on attempt maxRetries ends the Do call: it is returned with a
\* nil error, unclosed, with no wait after it.
C8_RateLimitedOnLastAttempt ==
    \A p \in Callers : \A i \in Attempts(p) :
        (hist[p][i].out = StatusTooManyRequests /\ i - 1 = maxRetries) =>
            /\ i = Len(hist[p]) /\ Done(p)
            /\ ~hist[p][i].waited /\ ~hist[p][i].closed
            /\ result[p] = [resp |-> StatusTooManyRequests, err |-> NoErr]

C8_Witness ==
    \E p \in Callers :
        /\ Completed(p) /\ maxRetries >= 1 /\ Len(hist[p]) = maxRetries + 1
        /\ \A i \in Attempts(p) : hist[p][i].out = StatusTooManyRequests

\* C9: a 401 or 403 ends the Do call on the attempt that received it: it is
\* returned with a nil error, with no wait after it, and the cached token
\* and expiry are cleared when Do has returned.
C9_RejectedCredential ==
    \A p \in Callers :
        /\ \A i \in Attempts(p) :
               hist[p][i].out \in {StatusUnauthorized, StatusForbidden} =>
                   /\ i = Len(hist[p]) /\ Done(p)
                   /\ ~hist[p][i].waited
                   /\ result[p] = [resp |-> hist[p][i].out, err |-> NoErr]
        /\ (Done(p) /\ result[p].resp \in {StatusUnauthorized, StatusForbidden}) =>
               token = 0 /\ tokenExpires = 0

\* A 403 on the first attempt of a call that had retry slots left and had
\* found the initial token valid.
C9_Witness ==
    \E p \in Callers :
        /\ Done(p) /\ maxRetries >= 1 /\ Len(hist[p]) = 1
        /\ result[p] = [resp |-> StatusForbidden, err |-> NoErr]
        /\ cred0Valid /\ renewCalls = 0 /\ ticks = 0 /\ budget[p] = MaxCalls - 1

\* C10: from the return of a Do call with a 401/403 (no other call running)
\* until a renewal call is issued, the credential is invalid and no request
\* is built or handed to the transport: a call that starts is in its first
\* ensureAuthenticated, on the way to reauthenticate.
C10_RenewalAfterRejection ==
    pending401 =>
        /\ token = 0 /\ ~tokenValid
        /\ \A p \in Callers :
               /\ pc[p] \in {"idle", "done", "loop", "lock", "recheck"}
               /\ Running(p) => attempt[p] = 0 /\ hist[p] = <<>>
               /\ pc[p] \in {"lock", "recheck"} => ens[p].path = "slow"

\* The initial token was valid and never expired, a Do call got a 401/403,
\* and the next Do call has issued the first renewal there is.
C10_Witness ==
    \E p \in Callers :
        /\ cred0Valid /\ ticks = 0 /\ invalidated
        /\ budget[p] < MaxCalls - 1
        /\ pc[p] = "renewing" /\ ens[p].id = 1 /\ hist[p] = <<>>

\* C11: a response whose status is not 429 (a success, or any other error
\* status, 5xx included) ends the Do call on the attempt that received it,
\* whatever came before it and however many retry slots are left: no
\* attempt and no backoff wait follows, Do does not close it, and Do returns
\* it with a nil error.
C11_ResponseReturnedAtOnce ==
    \A p \in Callers : \A i \in Attempts(p) :
        hist[p][i].out \notin {0, StatusTooManyRequests} =>
            /\ i = Len(hist[p]) /\ pc[p] = "done"
            /\ attempt[p] = i - 1
            /\ ~hist[p][i].waited /\ ~hist[p][i].closed
            /\ result[p].resp = hist[p][i].out /\ result[p].err = NoErr

\* A 500 on the second attempt, after a 429, with a retry slot left.
C11_Witness ==
    \E p \in Callers :
        /\ pc[p] = "done" /\ maxRetries = 2 /\ Len(hist[p]) = 2
        /\ hist[p][1].out = StatusTooManyRequests /\ hist[p][2].out = 500
        /\ result[p].resp = 500

\* The last renewal of p's Do call was answered with r, on which
\* reauthenticate (and with it ensureAuthenticated) returns an error.
EnsureFailed(p) ==
    authReply[p] # NoReply /\ reauthenticateErr(authReply[p]) # "nil"

\* C12: when ensureAuthenticated returns an error in an iteration of Do, the
\* Do call ends there: it returns no response and that very error (the one
\* of the last renewal issued), the request was executed only in the
\* iterations before (each of which ended in a wait), and no other renewal
\* was issued after the failed one, however many retry slots are left.
C12_AuthErrorEndsDo ==
    \A p \in Callers :
        EnsureFailed(p) =>
            /\ pc[p] = "done"
            /\ result[p].resp = 0
            /\ result[p].err = Err(reauthenticateErr(authReply[p]),
                                   authReply[p].status, renewCalls)
            /\ Len(hist[p]) = attempt[p]
            /\ \A i \in Attempts(p) : hist[p][i].waited

\* The renewal of the second iteration failed (the transport of the auth
\* call) with a retry slot left.
C12_Witness ==
    \E p \in Callers :
        /\ pc[p] = "done" /\ maxRetries = 2 /\ attempt[p] = 1 /\ Len(hist[p]) = 1
        /\ authReply[p].k = "neterr"
        /\ result[p].err.kind = "auth_request_failed"

Suspended(p) ==
    \/ pc[p] \in {"inflight", "wait", "renewing"}
    \/ pc[p] = "lock" /\ authMutex # 0

\* The steps by which a cancelled ctx ends a suspension: the transport
\* returns ctx's error for the request built with ctx, wait returns it.
Released(p) == TransportError(p) \/ WaitCancelled(p)

\* C14: a Do call is suspended only in the network call of its request and
\* in the backoff wait, and a cancelled ctx releases it wherever it is
\* suspended: it never stays blocked on authMutex or on the renewal's
\* network call.
C14_CancelReleasesEverySuspension ==
    \A p \in Callers :
        (Suspended(p) /\ ctxDone[p]) =>
            /\ pc[p] \in {"inflight", "wait"}
            /\ ENABLED Released(p)

\* C15: once the last renewal of a Do call was answered with a status that
\* is not the success status, the cached token is empty, the expiry unset,
\* and reauthenticate has returned a non-nil error, the one mapHTTPError
\* classifies the status as: the Do call has ended with it.
C15_NonSuccessClearsAndFails ==
    \A p \in Callers :
        authReply[p].k = "status" =>
            /\ token = 0 /\ tokenExpires = 0
            /\ pc[p] = "done"
            /\ result[p].err.kind # "nil"
            /\ result[p].err.kind = mapHTTPError(authReply[p].status)

\* C16: once the last renewal of a Do call has failed, for whatever reason
\* (the auth call's transport, an unreadable or unparsable body, a missing
\* token, a status that is not the success status), the cached token is
\* empty and the expiry unset, whatever was cached before the renewal.
C16_FailedRenewalClears ==
    \A p \in Callers :
        (authReply[p] # NoReply /\ authReply[p].k # "token") =>
            token = 0 /\ tokenExpires = 0

\* C17: an authentication answered with the success status and no token
\* gives the caller of AuthenticateUser / AuthenticateSuperuser no client
\* and a non-nil error, and no credential exists; a renewal answered so
\* gives ensureAuthenticated's caller a non-nil error, which ends the Do
\* call, and stores nothing: the credential is as invalid as it was, and
\* its token is not one of this renewal.
C17_MissingTokenIsFailure ==
    /\ authGot.k = "notoken" =>
           /\ authStage = "failed"
           /\ ~authRet.client
           /\ authRet.err = Err("auth_token_missing", StatusOK, 0)
           /\ token = 0 /\ tokenExpires = 0
           /\ \A p \in Callers : pc[p] = "idle"
    /\ \A p \in Callers :
           authReply[p].k = "notoken" =>
               /\ pc[p] = "done"
               /\ result[p] = [resp |-> 0,
                               err |-> Err("auth_token_missing", StatusOK, renewCalls)]
               /\ ~tokenValid
               /\ token # TokenOf(renewCalls)

\* A first authentication was answered without a token, a second one with
\* a token; a day later that token has expired and the renewal is answered
\* without a token: the expired token is still cached.
C17_Witness ==
    \E p \in Callers :
        /\ authNoToken /\ authStage = "ready"
        /\ authReply[p].k = "notoken" /\ pc[p] = "done"
        /\ token = TokenOf(0) /\ tokenExpires # 0

\* What the tokenValid() that p's ensureAuthenticated has just called
\* returned: it sent p on to the request, or to authMutex.
Returned(p) == pc[p] = "send"

\* C18: tokenValid returns false when the token is empty; true when the
\* token is not empty and the expiry is unset; true when the token is not
\* empty and the expiry is strictly later than now; false when the token is
\* not empty and the expiry is now or earlier.  The call changes neither
\* the credential nor anything else but the caller's own position.
C18_TokenValidTable ==
    /\ [](\A p \in Callers :
             pc[p] \in {"send", "lock"} =>
                 /\ token = 0 => ~Returned(p)
                 /\ (token # 0 /\ tokenExpires = 0) => Returned(p)
                 /\ (token # 0 /\ tokenExpires # 0 /\ tokenExpires > now) => Returned(p)
                 /\ (token # 0 /\ tokenExpires # 0 /\ tokenExpires <= now) => ~Returned(p))
    /\ [][\A p \in Callers :
              (pc[p] = "loop" /\ pc'[p] # "loop") =>
                  UNCHANGED <<credVars, authMutex, clockVars, cfgVars, authVars,
                              attempt, tok, ctxDone, result, budget, hist, delays, histVars>>]_vars

\* tokenValid returned false for a token that expires at this very moment.
C18_Witness ==
    \E p \in Callers :
        pc[p] = "lock" /\ token # 0 /\ tokenExpires = now /\ ens[p].path = "slow"

\* The callers whose renewal call is in progress.
Renewing == {p \in Callers : pc[p] = "renewing"}

\* C19: under every interleaving of concurrent Do calls at most one renewal
\* call is in progress, its caller holds authMutex, and a renewal call is
\* started (an auth request issued) only in a step of the caller that holds
\* authMutex and finds, in that step, the credential invalid.
C19_OneRenewalUnderLock ==
    /\ [](/\ Cardinality(Renewing) <= 1
          /\ \A p \in Callers : pc[p] \in {"recheck", "renewing"} => authMutex = p)
    /\ [][\A p \in Callers :
              (pc[p] # "renewing" /\ pc'[p] = "renewing") =>
                  /\ pc[p] = "recheck" /\ authMutex = p /\ authMutex' = p
                  /\ ~tokenValid
                  /\ renewCalls' = renewCalls + 1]_vars
    /\ [][renewCalls' # renewCalls =>
              \E p \in Callers : pc[p] = "recheck" /\ pc'[p] = "renewing"]_vars

\* A renewal is in progress while another caller, which also found the
\* credential invalid, waits for authMutex.
C19_Witness ==
    \E p, q \in Callers :
        /\ p # q /\ pc[p] = "renewing" /\ authMutex = p
        /\ pc[q] = "lock" /\ ens[q].path = "slow"

\* The auth request of q's renewal is out and no reply has arrived.
RenewalInFlight(q) == pc[q] = "renewing" /\ Holds(q, "")

\* p is in, or at the door of, a tokenMutex critical section, and the next
\* step of it is enabled: the lock is granted, or the section runs to its
\* end and the lock is released.
AtSection(p) ==
    \/ pc[p] \in {"loop", "send"}
    \/ pc[p] = "inflight" /\ tokenMutex[p] \in {"w?", "w"}
Proceeds(p) ==
    \/ ENABLED RLockToken(p)
    \/ ENABLED LockToken(p)
    \/ ENABLED LoopHeadLocked(p)
    \/ ENABLED SendRequestLocked(p)
    \/ \E s \in DoStatuses : Invalidates(s) /\ ENABLED ResponseLocked(p, s)

\* Callers other than p and q that hold tokenMutex or wait for it.
Others(p, q) == {x \in Callers \ {p, q} : tokenMutex[x] # ""}

\* C20: the caller whose renewal is out on the network does not hold
\* tokenMutex, and it entered the network call without it; a tokenValid,
\* readToken or clearToken of another caller then proceeds (unless a third
\* caller is in its own critical section), whatever the renewal does; and a
\* caller that finds the credential valid at its first tokenValid() goes on
\* to its request whoever holds authMutex, which it leaves untouched.
C20_RenewalHoldsNoTokenLock ==
    /\ [](\A q \in Callers :
             /\ pc[q] = "renewing" => tokenMutex[q] # "r"
             /\ RenewalInFlight(q) =>
                    \A p \in Callers \ {q} :
                        (AtSection(p) /\ Others(p, q) = {}) => Proceeds(p))
    /\ [](\A p \in Callers :
             (pc[p] = "loop" /\ Holds(p, "r") /\ tokenValid) =>
                 ENABLED (LoopHeadLocked(p) /\ pc'[p] = "send"))
    /\ [][\A p \in Callers :
              /\ (pc[p] # "renewing" /\ pc'[p] = "renewing") => tokenMutex'[p] = ""
              /\ (pc[p] = "loop" /\ pc'[p] = "send") => authMutex' = authMutex]_vars

\* While q's renewal is out, p, whose request went out with an earlier
\* credential, is inside clearToken, and authMutex is q's.
C20_Witness ==
    \E p, q \in Callers :
        /\ p # q /\ RenewalInFlight(q) /\ authMutex = q
        /\ pc[p] = "inflight" /\ Holds(p, "w")

\* C21: the body given to Do is read once, before the first attempt: every
\* request of the Do call that is handed to the transport (the first, and
\* each retry after a transport error or a 429) carries the bytes of the
\* body given, and the reader given is drained by then; a Do call given no
\* body sends no body (and no Content-Type) in every request.
C21_SameBodyEveryAttempt ==
    \A p \in Callers :
        /\ Len(sent[p]) = Execs(p)
        /\ \A i \in 1..Len(sent[p]) :
               /\ sent[p][i].nil = given[p].nil
               /\ sent[p][i].data = given[p].data
               /\ sent[p][i].json = ~given[p].nil
               /\ sent[p][i] = sent[p][1]
        /\ (Running(p) /\ ~given[p].nil) =>
               /\ body[p].data = <<>>
               /\ bodyBytes[p] = Bytes(FALSE, given[p].data)
        /\ (Running(p) /\ given[p].nil) => bodyBytes[p] = NilBytes

\* A two-byte body was sent three times: first, after a transport error,
\* after a 429.
C21_Witness ==
    \E p \in Callers :
        /\ given[p].data = <<"a", "b">> /\ Len(sent[p]) = 3
        /\ sent[p][3].data = <<"a", "b">>
        /\ hist[p][1].out = 0 /\ hist[p][2].out = StatusTooManyRequests

\* C22: whatever the retry limit given to WithRetry and whatever the
\* transport answers, no Do call returns "request failed after retries": the
\* loop test is reached only with attempt <= maxRetries, an iteration with
\* attempt = maxRetries returns (its attempt is the last one and is not
\* followed by a wait), and only iterations with attempt < maxRetries go
\* into a wait and on to the next iteration.
C22_RetriesExhaustedUnreachable ==
    \A p \in Callers :
        /\ result[p].err.kind # "retries"
        /\ pc[p] = "loop" => attempt[p] <= maxRetries
        /\ pc[p] = "wait" => attempt[p] < maxRetries
        /\ \A i \in Attempts(p) :
               /\ hist[p][i].waited => i - 1 < maxRetries
               /\ i - 1 = maxRetries => (i = Len(hist[p]) /\ pc[p] = "done")

\* Every iteration up to attempt = maxRetries was run, and the last one
\* returned its transport error.
C22_Witness ==
    \E p \in Callers :
        /\ pc[p] = "done" /\ maxRetries = MaxRetriesBound
        /\ attempt[p] = maxRetries /\ Len(hist[p]) = maxRetries + 1
        /\ result[p].err.kind = "transport"

\* A Duration as the number it stands for, in two's complement of one more
\* bit, and twice that number in the same form.
Wide(d) == <<d[1]>> \o d
Doubled(d) == d \o <<0>>
Positive(d) == d[1] = 0 /\ \E i \in 1..DurationBits : d[i] = 1

\* C23: the wait after attempt i lasts baseBackoff * 2^i, with 200ms for a
\* base that is zero or negative: the first delay is the base, every delay
\* is positive, and every later delay is twice the one before it.
C23_DelayDoubles ==
    \A p \in Callers : \A i \in 1..Len(delays[p]) :
        /\ i = 1 => delays[p][i] = ToBits(IF backoff <= 0 THEN DefaultBackoff ELSE backoff)
        /\ Positive(delays[p][i])
        /\ i > 1 => Wide(delays[p][i]) = Doubled(delays[p][i - 1])

Sentinels ==
    {"ErrBadRequest", "ErrUnauthorized", "ErrForbidden", "ErrNotFound", "ErrConflict",
     "ErrValidation", "ErrRateLimited", "ErrServer"}

\* errors.Is(e, sentinel)
Is(e, sentinel) == e.class = sentinel

\* C25: mapHTTPError gives 400 -> ErrBadRequest, 401 -> ErrUnauthorized,
\* 403 -> ErrForbidden, 404 -> ErrNotFound, 409 -> ErrConflict,
\* 422 -> ErrValidation, 429 -> ErrRateLimited, a status >= 500 -> ErrServer,
\* a 2xx status -> nil, any other status -> an *HTTPError with that status
\* that is none of the sentinels; and every body gives the same class for
\* the same status.
C25_StatusClasses ==
    mapped # NoMapped =>
        LET s == mapped.status
            e == mapped.err
        IN  /\ s = 400 => Is(e, "ErrBadRequest")
            /\ s = 401 => Is(e, "ErrUnauthorized")
            /\ s = 403 => Is(e, "ErrForbidden")
            /\ s = 404 => Is(e, "ErrNotFound")
            /\ s = 409 => Is(e, "ErrConflict")
            /\ s = 422 => Is(e, "ErrValidation")
            /\ s = 429 => Is(e, "ErrRateLimited")
            /\ s >= 500 => Is(e, "ErrServer")
            /\ (s >= 200 /\ s < 300) => e.class = "nil"
            /\ (s \notin {400, 401, 403, 404, 409, 422, 429} /\ s < 500 /\ ~(s >= 200 /\ s < 300)) =>
                   /\ e.class = "HTTPError" /\ e.status = s
                   /\ \A x \in Sentinels : ~Is(e, x)
            /\ \A b \in ErrBodies : mapHTTPErrorValue(s, b).class = e.class

\* A status above the 5xx range with a JSON body that has a message and data
\* fields was classified as a server error carrying the message.
C25_Witness ==
    /\ mapped.status = 600 /\ mapped.body.raw = <<"{md}">>
    /\ mapped.err.class = "ErrServer"
    /\ mapped.err.msg = <<"bad", ": ", "name", ": ", "required">>

\* C26: whatever the auth endpoint answers, AuthenticateUser /
\* AuthenticateSuperuser returns an authenticatedClient with a nil error or
\* no client with a non-nil error, never no client and a nil error.
C26_AuthFailureIsAnError ==
    authStage \in {"failed", "ready"} =>
        \/ authRet.client /\ authRet.err.kind = "nil"
        \/ ~authRet.client /\ authRet.err.kind # "nil"

\* The calls and record changes of the Run or Down that began last.
Since == SubSeq(called, began.at + 1, Len(called))
Ups == SelectSeq(Since, LAMBDA c : c.e = "up")
Downs == SelectSeq(Since, LAMBDA c : c.e = "down")
NamesOf(recs) == {recs[i].name : i \in 1..Len(recs)}
Registered == {e[1] : e \in byName}
InRun == began.op = "run" /\ (rpc = "idle" => runRet.op = "run")
InDown == began.op = "down" /\ (rpc = "idle" => runRet.op = "down")

\* What was pending when the Run began: registered and not recorded.
PendingAtStart == Registered \ NamesOf(began.records)

\* C27: Run calls Up on the pending migrations in ascending order of their
\* trimmed names, whatever the order of registration: the names of its Up
\* calls ascend, each is a pending one, none before it in the order was left
\* out, and a Run that returns nil has called them all.  Each migration is
\* recorded after its Up succeeded and before the next Up: a successful Up
\* is followed at once by the creation of its record, and a record is
\* created only then.
C27_UpInNameOrderThenRecord ==
    InRun =>
        /\ \A i \in 1..Len(Ups) :
               /\ Ups[i].name \in PendingAtStart
               /\ i > 1 => Less(Ups[i - 1].name, Ups[i].name)
               /\ \A x \in PendingAtStart :
                      Less(x, Ups[i].name) => \E j \in 1..(i - 1) : Ups[j].name = x
        /\ (rpc = "idle" /\ runRet.err = RNil /\ Len(Since) > 0) =>
               {Ups[i].name : i \in 1..Len(Ups)} = PendingAtStart
        /\ \A i \in 1..Len(Since) :
               /\ (Since[i].e = "up" /\ Since[i].ok /\ i < Len(Since)) =>
                      Since[i + 1].e = "record" /\ Since[i + 1].name = Since[i].name
               /\ (Since[i].e = "up" /\ ~Since[i].ok) => i = Len(Since)
               /\ (Since[i].e = "up" /\ i = Len(Since) /\ Since[i].ok) => rpc = "record"
               /\ Since[i].e = "record" =>
                      /\ i > 1 /\ Since[i - 1] = Call("up", Since[i].name, TRUE)
                      /\ Since[i].ok <=> Since[i].name \in NamesOf(records)
                      /\ ~Since[i].ok => i = Len(Since)

\* The migrations were registered as c, a, b; Run called Up on a, b, c and
\* recorded each one before the next Up.
C27_Witness ==
    /\ migrations = <<1, 2, 3>> /\ rpc = "idle" /\ runRet = Ret("run", RNil)
    /\ Since = <<Call("up", <<"a">>, TRUE), Call("record", <<"a">>, TRUE),
                 Call("up", <<"b">>, TRUE), Call("record", <<"b">>, TRUE),
                 Call("up", <<"c">>, TRUE), Call("record", <<"c">>, TRUE)>>

\* The Up that failed in the Run that began last, if one did.
FailedUp == {i \in 1..Len(Since) : Since[i].e = "up" /\ ~Since[i].ok}
UpsBefore(k) == {Since[i].name : i \in {j \in 1..(k - 1) : Since[j].e = "up"}}

\* C28: when an Up fails, Run returns a non-nil error, calls Up on no later
\* migration, creates no record for the failing one, and the records
\* afterwards are those there were before plus those of the migrations that
\* ran before the failure.
C28_FailedUpStopsRun ==
    (InRun /\ rpc = "idle") =>
        \A k \in FailedUp :
            /\ runRet.err # RNil
            /\ k = Len(Since)
            /\ \A x \in Registered : Less(Since[k].name, x) => x \notin UpsBefore(k + 1)
            /\ Since[k].name \notin NamesOf(records)
            /\ NamesOf(records) = NamesOf(began.records) \cup UpsBefore(k)
            /\ Len(records) = Len(began.records) + Cardinality(UpsBefore(k))

\* Of three registered migrations, a ran and was recorded, b failed, c was
\* not called.
C28_Witness ==
    /\ rpc = "idle" /\ runRet.op = "run" /\ Len(migrations) = 3
    /\ Since = <<Call("up", <<"a">>, TRUE), Call("record", <<"a">>, TRUE),
                 Call("up", <<"b">>, FALSE)>>
    /\ NamesOf(records) = {<<"a">>}

\* Nothing failed and nothing was rolled back so far.
AllWentWell ==
    \A i \in 1..Len(called) : called[i].ok /\ called[i].e \in {"up", "record"}
Count(e, name) == Cardinality({i \in 1..Len(called) : called[i] = Call(e, name, TRUE)})

\* C29: Run is idempotent.  A Run that follows a Run that returned nil calls
\* no Up and creates no record, and returns nil (when the backend answers
\* its two requests); and when every Run so far went well, a Run that
\* returns nil leaves every registered migration with exactly one Up call
\* and exactly one record.
C29_RunIdempotent ==
    /\ (InRun /\ began.prev = Ret("run", RNil)) =>
           /\ Since = <<>>
           /\ records = began.records
           /\ rpc = "idle" => runRet.err.kind \in {"nil", "request_failed"}
           /\ rpc # "idle" => todo = <<>>
    /\ (InRun /\ rpc = "idle" /\ runRet.err = RNil /\ AllWentWell) =>
           \A x \in Registered :
               /\ Count("up", x) = 1
               /\ Cardinality({i \in 1..Len(records) : records[i].name = x}) = 1

\* Two Runs returned nil: the first one ran two migrations, the second
\* one called nothing.
C29_Witness ==
    /\ rpc = "idle" /\ runRet = Ret("run", RNil) /\ began.prev = Ret("run", RNil)
    /\ Len(migrations) = 2 /\ Len(called) = 4 /\ Since = <<>>
    /\ began.op = "run" /\ opsLeft = MaxOps - 2

\* The record of began.records with a given name.
RecordOf(name) == CHOOSE r \in {began.records[i] : i \in 1..Len(began.records)} : r.name = name
Deleted == {Since[i].name : i \in {j \in 1..Len(Since) : Since[j] = Call("delete", Since[j].name, TRUE)}}

ListNames == {TrimSpace(Name(migrations[i])) : i \in 1..Len(migrations)}
IndexNames == {e[1] : e \in byName}

\* C31: Register keeps the registered names unique.  After any sequence of
\* Register calls the list and the index hold the same names, each once,
\* none blank, and each index entry is the migration of the list with that
\* name.  A Register call with nil, with a blank name or with a name that is
\* registered already (after trimming) returns an error, the last one
\* ErrDuplicateMigration, and leaves list and index as they were; any other
\* call returns nil and appends the migration.
C31_RegisteredNamesUnique ==
    /\ [](/\ ListNames = IndexNames
          /\ Cardinality(ListNames) = Len(migrations)
          /\ Cardinality(byName) = Len(migrations)
          /\ <<>> \notin ListNames
          /\ \A i \in 1..Len(migrations) :
                 /\ migrations[i] # NilMigration
                 /\ <<TrimSpace(Name(migrations[i])), migrations[i]>> \in byName)
    /\ [][began'.op = "register" =>
            LET m == began'.n
                rejected == runRet'.err # RNil /\ UNCHANGED <<migrations, byName>>
            IN  IF m = NilMigration \/ TrimSpace(Name(m)) = <<>>
                THEN rejected /\ "ErrDuplicateMigration" \notin runRet'.err.wraps
                ELSE IF TrimSpace(Name(m)) \in ListNames
                THEN rejected /\ "ErrDuplicateMigration" \in runRet'.err.wraps
                ELSE /\ runRet' = Ret("register", RNil)
                     /\ migrations' = Append(migrations, m)
                     /\ IndexNames' = IndexNames \cup {TrimSpace(Name(m))}]_vars

\* " a" is registered; Register of "a" was refused as a duplicate.
C31_Witness ==
    /\ migrations = <<2>> /\ byName = {<< <<"a">>, 2 >>}
    /\ began.op = "register" /\ began.n = 4
    /\ runRet = Ret("register", RErr("duplicate_migration", {"ErrDuplicateMigration"}))

\* The call that began last is one that starts with ensureCollection.
Ensures ==
    /\ began.op \in {"run", "pending", "applied", "down"}
    /\ began.op = "down" => began.n > 0
    /\ rpc = "idle" => runRet.op = began.op

\* C32: with WithAutoCreate(false), when the collection is missing and the
\* backend answers the GET (with 404), Run, Pending, Applied and Down(n > 0)
\* return ErrCollectionNotFound, send no creation request, call no Up or
\* Down, create or delete no record, and the collection stays missing.  With
\* auto-create on, the creation request is sent, and when no request fails
\* the collection exists afterwards and the operation goes on: Pending and
\* Applied return nil, Run calls Up on every registered migration and
\* returns nil once all are recorded, Down finds nothing to roll back.
C32_MissingCollection ==
    (Ensures /\ ~began.ens.existed /\ began.ens.failure # "get") =>
        IF ~autoCreate
        THEN /\ rpc = "idle"
             /\ runRet = Ret(began.op, RErr("collection_not_found", {"ErrCollectionNotFound"}))
             /\ ~began.ens.created
             /\ ~collectionExists
             /\ Since = <<>> /\ records = began.records
        ELSE /\ began.ens.created
             /\ began.ens.failure = "none" =>
                    /\ collectionExists
                    /\ began.op \in Reads => rpc = "idle" /\ runRet.err = RNil
                    /\ began.op = "down" =>
                           /\ rpc \in {"idle", "down"} /\ todo = <<>> /\ Since = <<>>
                           /\ rpc = "idle" => runRet.err = RNil
                    /\ began.op = "run" =>
                           /\ rpc # "idle" =>
                                  {Ups[i].name : i \in 1..Len(Ups)} \cup
                                      {TrimSpace(Name(todo[i])) : i \in 1..Len(todo)}
                                  = Registered
                           /\ (rpc = "idle" /\ runRet.err = RNil) =>
                                  NamesOf(records) = Registered

\* Auto-create is off, the collection is missing and migrations are
\* registered: Run returned ErrCollectionNotFound and did nothing.
C32_Witness ==
    /\ ~autoCreate /\ ~collectionExists /\ Len(migrations) = 2
    /\ began.op = "run" /\ ~began.ens.created /\ began.ens.failure = "none"
    /\ rpc = "idle" /\ called = <<>> /\ records = <<>>
    /\ runRet = Ret("run", RErr("collection_not_found", {"ErrCollectionNotFound"}))

\* C33: KVStore.Delete is idempotent.  Every Delete call with a key that
\* is not blank, from whichever caller and however often, returns nil when
\* the backend answers its requests, and the key has no record after a
\* Delete that returned nil; a Delete of a key that had no record when it
\* began sends no DELETE request.
C33_DeleteIdempotent ==
    \A p \in Callers :
        LET c == kvCall[p]
        IN  /\ (c.pc = "idle" /\ c.ret.op = "delete" /\ c.key # <<>>) =>
                   /\ c.ret.err.kind \in {"nil", "request_failed"}
                   /\ c.ret.err = RNil => ~\E r \in kvStore : r.key = c.key
            /\ c.absent => c.pc # "found"

\* C34: when ensureAuthenticated returns nil the credential was valid at
\* some moment of the call: at its first or second look, or because the
\* renewal it ran was answered with a token and stored it.  So a renewal
\* that leaves the token empty never makes ensureAuthenticated return nil,
\* and the request that follows carries a token.
C34_NilMeansValidCredential ==
    \A p \in Callers :
        /\ ens[p].path = "renewed" => authReply[p].k = "token"
        /\ (ens[p].path = "renewed" /\ pc[p] = "inflight") => tok[p] # 0

\* C35: a 401/403 response discards only the credential it rejected.  When
\* the response to a request sent with token T is processed while the cache
\* holds another token T', which a renewal has stored since, T' and its
\* expiry stay as they are.
C35_OnlyRejectedTokenDiscarded ==
    [][\A p \in Callers :
          (/\ pc[p] = "inflight" /\ pc'[p] # "inflight"
           /\ tok[p] # 0 /\ token # 0 /\ token # tok[p]) =>
              token' = token /\ tokenExpires' = tokenExpires]_vars

\* ensureAuthenticated has returned nil in p's current iteration.
EnsuredNil(p) == ens[p].path \in {"fast", "waited", "renewed"}

\* C36: within a Do call every execution of the request is preceded, in the
\* same iteration, by an ensureAuthenticated call that returned nil: the
\* request is handed to the transport only from there.  So when a retry's
\* ensureAuthenticated finds the credential invalid (expired, or invalidated
\* by another caller, during the backoff wait), the retry is sent only
\* after a renewal has stored a token: the one this call ran, or the one it
\* waited for.
C36_EnsureBeforeEveryAttempt ==
    /\ [](\A p \in Callers :
             /\ pc[p] = "send" => EnsuredNil(p)
             /\ pc[p] \in {"inflight", "wait"} => ens[p] = NoEns
             /\ (pc[p] = "send" /\ attempt[p] > 0 /\ ens[p].path = "renewed") =>
                    authReply[p].k = "token"
             /\ (pc[p] = "send" /\ attempt[p] > 0 /\ ens[p].path = "waited") =>
                    RenewDone > ens[p].x)
    /\ [][\A p \in Callers :
              (pc'[p] = "inflight" /\ pc[p] # "inflight") =>
                  pc[p] = "send" /\ EnsuredNil(p)]_vars

\* A step of p's running Do call, lock acquisitions and the arrival of
\* replies included.
StepOf(p) ==
    \/ RLockToken(p)
    \/ ReplyToLock(p)
    \/ LockToken(p)
    \/ LoopHeadLocked(p)
    \/ Holds(p, "") /\ LockAuth(p) /\ UNCHANGED tokenMutex
    \/ RecheckLocked(p)
    \/ \E r \in AuthReplies : RenewReplyLocked(p, r)
    \/ SendRequestLocked(p)
    \/ Holds(p, "") /\ TransportError(p) /\ UNCHANGED tokenMutex
    \/ \E st \in DoStatuses : ResponseLocked(p, st)

\* C37: authMutex and tokenMutex never deadlock.  A caller that waits for
\* or holds authMutex outside its tokenValid and its store holds no
\* tokenMutex when it acquires authMutex; a caller asks for tokenMutex only
\* while it holds none of it (a read lock only in tokenValid and readToken,
\* the write lock only for clearToken and the store); a call that has
\* returned holds neither lock; authMutex is held only by a call inside
\* ensureAuthenticated; and while a call is running, some running call can
\* take a step.
C37_NoDeadlock ==
    /\ \A p \in Callers :
           /\ pc[p] = "lock" => tokenMutex[p] = ""
           /\ tokenMutex[p] = "r" => pc[p] \in {"loop", "recheck", "send"}
           /\ tokenMutex[p] \in {"w?", "w"} => pc[p] \in {"inflight", "renewing"}
           /\ pc[p] \in {"idle", "done"} => tokenMutex[p] = "" /\ authMutex # p
           /\ authMutex = p => pc[p] \in {"recheck", "renewing"}
    /\ Cardinality({p \in Callers : tokenMutex[p] = "w"}) <= 1
    /\ (\E p \in Callers : tokenMutex[p] = "w") =>
           \A q \in Callers : tokenMutex[q] # "r"
    /\ (\E p \in Callers : Running(p)) =>
           \E p \in Callers : Running(p) /\ ENABLED StepOf(p)

\* Both locks are contended: p holds authMutex and waits in
\* tokenMutex.Lock() for its store, while q holds tokenMutex for reading.
C37_Witness ==
    \E p, q \in Callers :
        /\ authMutex = p /\ pc[p] = "renewing" /\ tokenMutex[p] = "w?"
        /\ tokenMutex[q] = "r"

\* C38: every Do call terminates.  When every transport call and renewal
\* returns, every timer fires and authMutex is handed on, a Do call that
\* has started returns, a response or an error and not both, and it never
\* begins more than maxRetries + 1 iterations.
C38_DoTerminates ==
    /\ \A p \in Callers : Running(p) ~> Done(p)
    /\ [](\A p \in Callers :
             /\ Running(p) => attempt[p] <= maxRetries + 1
             /\ pc[p] \notin {"idle", "done", "loop"} => attempt[p] <= maxRetries
             /\ Len(hist[p]) <= maxRetries + 1
             /\ Done(p) => (result[p].resp = 0) # (result[p].err = NoErr))

\* Both calls have returned; one of them waited for the other one's
\* renewal, used its retry after a backoff wait and renewed the credential
\* again, which the other call's 401 had discarded in between.
C38_Witness ==
    \E p, q \in Callers :
        /\ p # q /\ Done(p) /\ Done(q)
        /\ Len(hist[p]) = maxRetries + 1 /\ hist[p][1].waited
        /\ result[q].resp = StatusUnauthorized
        /\ renewCalls = 2 /\ authReply[p].k = "token" /\ authReply[q].k = "token"

\* C39: the migration bookkeeping matches what was executed.  Once Run has
\* returned, with nil or with an error, every migration whose Up returned
\* nil during that Run has a record; and Up is never called on a migration
\* whose Up succeeded before, unless a Down rolled it back in between.
C39_BookkeepingMatchesExecution ==
    /\ (rpc = "idle" /\ InRun) =>
           \A i \in 1..Len(Ups) : Ups[i].ok => Ups[i].name \in NamesOf(records)
    /\ \A i, j \in 1..Len(called) :
           (i < j /\ called[j].e = "up" /\ called[i] = Call("up", called[j].name, TRUE))
               => \E k \in (i + 1)..(j - 1) : called[k] = Call("down", called[j].name, TRUE)

\* The last call of the Run or Down that returned was an Up or a Down of a
\* migration, and it returned an error.
MigrationFailed(e) ==
    /\ rpc = "idle" /\ (InRun \/ InDown)
    /\ Since # <<>>
    /\ Since[Len(Since)].e = e /\ ~Since[Len(Since)].ok

\* C40: when a migration's Up (in Run) or Down (in Down) returns an error,
\* the error the runner returns matches ErrMigrationFailed for errors.Is and
\* wraps the migration's own error, as the error of a duplicate Register
\* matches ErrDuplicateMigration and that of a record with no registered
\* migration ErrMigrationNotFound.
C40_FailureMatchesSentinel ==
    /\ MigrationFailed("up") => {"ErrMigrationFailed", "up_error"} \subseteq runRet.err.wraps
    /\ MigrationFailed("down") => {"ErrMigrationFailed", "down_error"} \subseteq runRet.err.wraps
    /\ runRet.err.kind = "duplicate_migration" => "ErrDuplicateMigration" \in runRet.err.wraps
    /\ runRet.err.kind = "migration_not_found" => "ErrMigrationNotFound" \in runRet.err.wraps

\* A string of nothing but spaces.
Blank(s) == \A i \in 1..Len(s) : s[i] = " "
ConfigErrs == {"baseurl_required", "email_required", "password_required"}

\* C24: configuration errors come before any network call and are returned
\* at once.  NewClient with a blank base URL returns an error and no Client
\* (so that nothing can be called on it); AuthenticateUser /
\* AuthenticateSuperuser with a blank email or an empty password returns an
\* error and no client in the same step, with no auth request sent (the call
\* never stands at "authing", no reply of the auth endpoint belongs to it).
C24_ConfigErrorsBeforeNetwork ==
    /\ [](/\ authStage = "noclient" =>
               /\ ~authRet.client /\ authRet.err.kind = "baseurl_required"
               /\ authGot = NoReply /\ \A p \in Callers : sent[p] = <<>> /\ pc[p] = "idle"
          /\ authRet.err.kind \in ConfigErrs =>
               /\ ~authRet.client /\ authGot = NoReply
               /\ authStage \in {"noclient", "failed"})
    /\ [][\A url \in BaseURLs, n \in -1..MaxRetriesBound, b \in {0, DefaultBackoff} :
             (NewClient(url, n, b) /\ Blank(url)) =>
                 /\ authStage' = "noclient"
                 /\ authRet'.err.kind = "baseurl_required"]_vars
    /\ [][\A email \in Emails, password \in Passwords :
             (Authenticate(email, password) /\ (Blank(email) \/ password = <<>>)) =>
                 /\ authStage' = "failed" /\ ~authRet'.client
                 /\ authRet'.err.kind \in {"email_required", "password_required"}
                 /\ renewCalls' = renewCalls]_vars

\* NewClient returned a Client, and authenticate then refused an empty
\* password.
C24_Witness ==
    /\ authStage = "failed" /\ authRet.err.kind = "password_required"
    /\ baseURL = <<"u">> /\ authGot = NoReply

====
